---- MODULE Spec2Model ----
(***************************************************************************)
(* Verification model of the template-driven expression engine of the     *)
(* NiFi Python extension processors (SQLGeneratorProcessor 1.0.1 - 1.0.7, *)
(* SQLGeneratorProcessorV2, V3 and V5).                                    *)
(*                                                                         *)
(* Text is modelled as a sequence of one-character strings, so that the   *)
(* regular expressions, the quoting rules and the path grammar are        *)
(* computed character by character, as the code computes them.            *)
(* A JSON / Python value is a tagged record:                               *)
(*   [t |-> "null"]                  None                                  *)
(*   [t |-> "int",  n  |-> 1]        an integer                            *)
(*   [t |-> "str",  s  |-> <<..>>]   a string                              *)
(*   [t |-> "obj",  f  |-> fn]       a dict (field name -> value)          *)
(*   [t |-> "list", xs |-> <<..>>]   a list                                *)
(***************************************************************************)
EXTENDS Integers, Sequences, FiniteSets, TLC

VARIABLES
    pc,              \* position of the invocation under study
    inp,             \* the inputs of the invocation (properties, FlowFile content)
    out,             \* what the invocation returned
    jsonpath_cache,  \* SQLGeneratorProcessorV5._jsonpath_cache: path text -> compiled expression
    parse_calls,     \* history: how often jsonpath parse() ran for each path text
    thr              \* worker threads inside _get_expr: position and locals

vars == <<pc, inp, out, jsonpath_cache, parse_calls, thr>>

(***************************************************************************)
(* Text helpers                                                            *)
(***************************************************************************)
Chars(s) == [i \in 1..Len(s) |-> SubSeq(s, i, i)]

\* the element of a one-element set: The({ e(x) : x \in {v} }) is e with x bound to the value v
The(S) == CHOOSE y \in S : TRUE

RECURSIVE Flatten(_)
Flatten(ss) == IF ss = <<>> THEN <<>> ELSE Head(ss) \o Flatten(Tail(ss))

RECURSIVE SeqsUpTo(_, _)
SeqsUpTo(S, n) ==
    IF n = 0 THEN {<<>>}
    ELSE LET shorter == SeqsUpTo(S, n - 1)
         IN  shorter \cup {Append(q, x) : q \in {r \in shorter : Len(r) = n - 1}, x \in S}

Letters == {"a", "b", "c", "d", "e", "f", "g", "h", "i", "j", "k", "l", "m",
            "n", "o", "p", "q", "r", "s", "t", "u", "v", "w", "x", "y", "z",
            "A", "B", "C", "D", "E", "F", "G", "H", "I", "J", "K", "L", "M",
            "N", "O", "P", "Q", "R", "S", "T", "U", "V", "W", "X", "Y", "Z"}
Digits == {"0", "1", "2", "3", "4", "5", "6", "7", "8", "9"}

IsAlpha(c) == c \in Letters
IsDigit(c) == c \in Digits
IsSpace(c) == c = " "
\* \w of the re module
IsWord(c) == c \in Letters \/ c \in Digits \/ c = "_"

DigitChar(d) == CASE d = 0 -> "0" [] d = 1 -> "1" [] d = 2 -> "2" [] d = 3 -> "3"
                  [] d = 4 -> "4" [] d = 5 -> "5" [] d = 6 -> "6" [] d = 7 -> "7"
                  [] d = 8 -> "8" [] d = 9 -> "9"
DigitVal(c) == CHOOSE d \in 0..9 : DigitChar(d) = c

RECURSIVE NatStr(_)
NatStr(n) == IF n < 10 THEN <<DigitChar(n)>> ELSE NatStr(n \div 10) \o <<DigitChar(n % 10)>>
\* str(n) of an int
IntStr(n) == IF n < 0 THEN <<"-">> \o NatStr(-n) ELSE NatStr(n)

RECURSIVE NatVal(_)
NatVal(s) == IF s = <<>> THEN 0 ELSE 10 * NatVal(SubSeq(s, 1, Len(s) - 1)) + DigitVal(s[Len(s)])

\* str.strip(): leading and trailing white space removed
RECURSIVE LStrip(_)
LStrip(s) == IF s # <<>> /\ IsSpace(Head(s)) THEN LStrip(Tail(s)) ELSE s
RECURSIVE RStrip(_)
RStrip(s) == IF s # <<>> /\ IsSpace(s[Len(s)]) THEN RStrip(SubSeq(s, 1, Len(s) - 1)) ELSE s
Strip(s) == RStrip(LStrip(s))

\* str.lstrip(chars): leading characters of the set removed
RECURSIVE LStripSet(_, _)
LStripSet(s, cs) == IF s # <<>> /\ Head(s) \in cs THEN LStripSet(Tail(s), cs) ELSE s

\* position of the first c in s at or after i, 0 when there is none
RECURSIVE IndexFrom(_, _, _)
IndexFrom(s, c, i) ==
    IF i > Len(s) THEN 0 ELSE IF s[i] = c THEN i ELSE IndexFrom(s, c, i + 1)

\* the character at i is c
PeekIs(s, i, c) == i <= Len(s) /\ s[i] = c

\* str.replace("'", "''")
RECURSIVE DoubleQuotes(_)
DoubleQuotes(s) ==
    IF s = <<>> THEN <<>>
    ELSE (IF Head(s) = "'" THEN <<"'", "'">> ELSE <<Head(s)>>) \o DoubleQuotes(Tail(s))

\* "'" + s + "'"
Quoted(s) == <<"'">> \o s \o <<"'">>

\* ','.join(parts) and the like
RECURSIVE Join(_, _)
Join(sep, parts) ==
    IF parts = <<>> THEN <<>>
    ELSE IF Len(parts) = 1 THEN parts[1]
    ELSE parts[1] \o sep \o Join(sep, Tail(parts))

(***************************************************************************)
(* Python / JSON values                                                    *)
(***************************************************************************)
None == [t |-> "null"]
PyInt(n) == [t |-> "int", n |-> n]
PyStr(s) == [t |-> "str", s |-> s]
PyObj(f) == [t |-> "obj", f |-> f]
PyList(xs) == [t |-> "list", xs |-> xs]

\* Python truthiness: None, 0, '', {} and [] are falsy
Truthy(v) ==
    CASE v.t = "null" -> FALSE
      [] v.t = "int"  -> v.n # 0
      [] v.t = "str"  -> v.s # <<>>
      [] v.t = "obj"  -> DOMAIN v.f # {}
      [] v.t = "list" -> v.xs # <<>>

(***************************************************************************)
(* jsonpath_ng: parse(text) and compiled_expression.find(datum), for the   *)
(* path forms the processors document: $, $.a, a, $.a.b, $[*].a, $[0].a.   *)
(* A compiled expression is the sequence of its steps; a text outside the  *)
(* grammar makes parse() raise.                                            *)
(***************************************************************************)
RootStep == [k |-> "root", name |-> <<>>, i |-> 0]
FieldStep(nm) == [k |-> "field", name |-> nm, i |-> 0]
AllStep == [k |-> "all", name |-> <<>>, i |-> 0]
IdxStep(n) == [k |-> "idx", name |-> <<>>, i |-> n]

ParseError == [ok |-> FALSE, steps |-> <<>>]

\* end of the run of characters satisfying the class, starting at i (first index after it)
RECURSIVE WordEnd(_, _)
WordEnd(s, i) == IF i <= Len(s) /\ IsWord(s[i]) THEN WordEnd(s, i + 1) ELSE i
RECURSIVE DigitEnd(_, _)
DigitEnd(s, i) == IF i <= Len(s) /\ IsDigit(s[i]) THEN DigitEnd(s, i + 1) ELSE i
RECURSIVE SpaceEnd(_, _)
SpaceEnd(s, i) == IF i <= Len(s) /\ IsSpace(s[i]) THEN SpaceEnd(s, i + 1) ELSE i

\* an identifier starts at i: a word character that is no digit
NameAt(s, i) == i <= Len(s) /\ IsWord(s[i]) /\ ~IsDigit(s[i])

RECURSIVE PathSteps(_, _, _)
PathSteps(s, i, acc) ==
    IF i > Len(s) THEN (IF acc = <<>> THEN ParseError ELSE [ok |-> TRUE, steps |-> acc])
    ELSE IF acc = <<>> /\ s[i] = "$" THEN PathSteps(s, i + 1, <<RootStep>>)
    ELSE IF acc = <<>> /\ NameAt(s, i)
        THEN PathSteps(s, WordEnd(s, i), <<FieldStep(SubSeq(s, i, WordEnd(s, i) - 1))>>)
    ELSE IF acc # <<>> /\ s[i] = "." /\ NameAt(s, i + 1)
        THEN PathSteps(s, WordEnd(s, i + 1),
                       Append(acc, FieldStep(SubSeq(s, i + 1, WordEnd(s, i + 1) - 1))))
    ELSE IF s[i] = "[" /\ i + 2 <= Len(s) /\ s[i + 1] = "*" /\ s[i + 2] = "]"
        THEN PathSteps(s, i + 3, Append(acc, AllStep))
    ELSE IF s[i] = "[" /\ DigitEnd(s, i + 1) > i + 1 /\ DigitEnd(s, i + 1) <= Len(s)
            /\ s[DigitEnd(s, i + 1)] = "]"
        THEN PathSteps(s, DigitEnd(s, i + 1) + 1,
                       Append(acc, IdxStep(NatVal(SubSeq(s, i + 1, DigitEnd(s, i + 1) - 1)))))
    ELSE ParseError

\* jsonpath_ng.parse(path)
JsonPathParse(path) == PathSteps(path, 1, <<>>)

NoMatch == [err |-> FALSE, vals |-> <<>>]
Matches(vs) == [err |-> FALSE, vals |-> vs]
FindError == [err |-> TRUE, vals |-> <<>>]

\* one step of find() applied to one datum
StepFind(step, root, v) ==
    CASE step.k = "root" -> Matches(<<root>>)
      [] step.k = "field" ->
            IF v.t = "obj" /\ step.name \in DOMAIN v.f THEN Matches(<<v.f[step.name]>>)
            ELSE NoMatch
      [] step.k = "all" ->
            IF ~Truthy(v) THEN NoMatch
            ELSE IF v.t = "list" THEN Matches(v.xs)
            ELSE Matches(<<v>>)
      [] step.k = "idx" ->
            IF ~Truthy(v) THEN NoMatch
            ELSE IF v.t = "list"
                THEN (IF Len(v.xs) > step.i THEN Matches(<<v.xs[step.i + 1]>>) ELSE NoMatch)
            ELSE IF v.t = "str"
                THEN (IF Len(v.s) > step.i THEN Matches(<<PyStr(<<v.s[step.i + 1]>>)>>) ELSE NoMatch)
            ELSE IF v.t = "obj"
                THEN (IF Cardinality(DOMAIN v.f) > step.i THEN FindError ELSE NoMatch)
            ELSE FindError

\* one step applied to every datum matched so far, results concatenated in order
RECURSIVE StepFindAll(_, _, _)
StepFindAll(step, root, vs) ==
    IF vs = <<>> THEN NoMatch
    ELSE LET h == StepFind(step, root, Head(vs))
             r == StepFindAll(step, root, Tail(vs))
         IN  IF h.err \/ r.err THEN FindError ELSE Matches(h.vals \o r.vals)

RECURSIVE FindSteps(_, _, _)
FindSteps(steps, root, cur) ==
    IF steps = <<>> THEN cur
    ELSE LET nxt == StepFindAll(Head(steps), root, cur.vals)
         IN  IF nxt.err THEN FindError ELSE FindSteps(Tail(steps), root, nxt)

\* compiled.find(datum): the matched values in document order
JsonPathFind(compiled, datum) == FindSteps(compiled.steps, datum, Matches(<<datum>>))

\* any(m.value == value for m in matches)
RECURSIVE AnyEquals(_, _)
AnyEquals(vs, value) ==
    IF vs = <<>> THEN FALSE ELSE Head(vs) = value \/ AnyEquals(Tail(vs), value)

\* [xs[i] for i in range(len(xs)) if keep[i]], keeping order; keep is a function on 1..Len(xs)
RECURSIVE KeepFrom(_, _, _)
KeepFrom(xs, keep, i) ==
    IF i > Len(xs) THEN <<>>
    ELSE (IF keep[i] THEN <<xs[i]>> ELSE <<>>) \o KeepFrom(xs, keep, i + 1)
Filter(xs, keep) == KeepFrom(xs, keep, 1)

\* x in xs
Contains(xs, x) == \E i \in 1..Len(xs) : xs[i] = x


(***************************************************************************)
(* SQLGeneratorProcessorV5: the expression cache                           *)
(***************************************************************************)
EmptyCache == <<>>

\* _get_expr with the insert into the cache forgotten
get_expr_not_stored(cache, path) ==
    IF path \in DOMAIN cache
    THEN [err |-> FALSE, expr |-> cache[path], cache |-> cache, parsed |-> FALSE]
    ELSE The({ [err |-> ~compiled.ok, expr |-> compiled, cache |-> cache, parsed |-> TRUE]
               : compiled \in {JsonPathParse(path)} })

\* _get_expr keeping only the entry it has just compiled
get_expr_evicting(cache, path) ==
    IF path \in DOMAIN cache
    THEN [err |-> FALSE, expr |-> cache[path], cache |-> cache, parsed |-> FALSE]
    ELSE The({ IF compiled.ok
               THEN [err |-> FALSE, expr |-> compiled,
                     cache |-> [q \in {path} |-> compiled],
                     parsed |-> TRUE]
               ELSE [err |-> TRUE, expr |-> compiled, cache |-> cache, parsed |-> TRUE]
               : compiled \in {JsonPathParse(path)} })

\* _get_expr(path) on a cache: the expression returned, the cache afterwards, whether
\* parse() ran, and whether parse() raised
get_expr(cache, path) ==
    IF path \in DOMAIN cache
    THEN [err |-> FALSE, expr |-> cache[path], cache |-> cache, parsed |-> FALSE]
    ELSE The({ IF compiled.ok
               THEN [err |-> FALSE, expr |-> compiled,
                     cache |-> [q \in DOMAIN cache \cup {path} |->
                                   IF q = path THEN compiled ELSE cache[q]],
                     parsed |-> TRUE]
               ELSE [err |-> TRUE, expr |-> compiled, cache |-> cache, parsed |-> TRUE]
               : compiled \in {JsonPathParse(path)} })

(***************************************************************************)
(* Conditional split                                                       *)
(***************************************************************************)
SplitError(cache) == [err |-> TRUE, matched |-> <<>>, unmatched |-> None, cache |-> cache]
SplitResult(m, u, cache) == [err |-> FALSE, matched |-> m, unmatched |-> u, cache |-> cache]

\* `not key_expr`: the property is unset or the empty string
NoKey(key) == key = None \/ key.s = <<>>

\* _split_data with the buckets of the keyless case exchanged: return data, []
split_data_keyless_matching(cache, data, key_expr, value) ==
    IF NoKey(key_expr) \/ value = None
    THEN SplitResult(IF data.t = "list" THEN data.xs ELSE <<data>>, PyList(<<>>), cache)
    ELSE The({
        IF got.err THEN SplitError(got.cache)
        ELSE IF data.t = "list"
        THEN The({
            IF \E i \in 1..Len(data.xs) : found[i].err THEN SplitError(got.cache)
            ELSE The({ SplitResult(matched,
                                   PyList(Filter(data.xs, [i \in 1..Len(data.xs) |->
                                                              ~Contains(matched, data.xs[i])])),
                                   got.cache)
                       : matched \in {Filter(data.xs, [i \in 1..Len(data.xs) |->
                                                          AnyEquals(found[i].vals, value)])} })
            : found \in {[i \in 1..Len(data.xs) |-> JsonPathFind(got.expr, data.xs[i])]} })
        ELSE The({
            IF matches.err THEN SplitError(got.cache)
            ELSE IF AnyEquals(matches.vals, value)
            THEN SplitResult(<<data>>, PyList(<<>>), got.cache)
            ELSE SplitResult(<<>>, PyList(<<data>>), got.cache)
            : matches \in {JsonPathFind(got.expr, data)} })
        : got \in {get_expr(cache, key_expr.s)} })

\* SQLGeneratorProcessorV5._split_data(data, key_expr, value)
split_data(cache, data, key_expr, value) ==
    IF NoKey(key_expr) \/ value = None THEN SplitResult(<<>>, data, cache)
    ELSE The({
        IF got.err THEN SplitError(got.cache)
        ELSE IF data.t = "list"
        THEN The({
            IF \E i \in 1..Len(data.xs) : found[i].err THEN SplitError(got.cache)
            ELSE The({ SplitResult(matched,
                                   PyList(Filter(data.xs, [i \in 1..Len(data.xs) |->
                                                              ~Contains(matched, data.xs[i])])),
                                   got.cache)
                       : matched \in {Filter(data.xs, [i \in 1..Len(data.xs) |->
                                                          AnyEquals(found[i].vals, value)])} })
            : found \in {[i \in 1..Len(data.xs) |-> JsonPathFind(got.expr, data.xs[i])]} })
        ELSE The({
            IF matches.err THEN SplitError(got.cache)
            ELSE IF AnyEquals(matches.vals, value)
            THEN SplitResult(<<data>>, PyList(<<>>), got.cache)
            ELSE SplitResult(<<>>, PyList(<<data>>), got.cache)
            : matches \in {JsonPathFind(got.expr, data)} })
        : got \in {get_expr(cache, key_expr.s)} })

\* SQLGeneratorProcessorV3.split_json(data, key_path, value): the path is compiled on every call
split_json_v3(data, key_path, value) ==
    IF NoKey(key_path) THEN SplitResult(<<>>, data, EmptyCache)
    ELSE The({
        IF ~jsonpath_expr.ok THEN SplitError(EmptyCache)
        ELSE IF data.t = "list"
        THEN The({
            IF \E i \in 1..Len(data.xs) : found[i].err THEN SplitError(EmptyCache)
            ELSE SplitResult(
                    Filter(data.xs, [i \in 1..Len(data.xs) |-> AnyEquals(found[i].vals, value)]),
                    PyList(Filter(data.xs, [i \in 1..Len(data.xs) |->
                                               ~AnyEquals(found[i].vals, value)])),
                    EmptyCache)
            : found \in {[i \in 1..Len(data.xs) |-> JsonPathFind(jsonpath_expr, data.xs[i])]} })
        ELSE IF data.t = "obj"
        THEN The({
            IF matches.err THEN SplitError(EmptyCache)
            ELSE IF AnyEquals(matches.vals, value)
            THEN SplitResult(<<data>>, PyList(<<>>), EmptyCache)
            ELSE SplitResult(<<>>, PyList(<<data>>), EmptyCache)
            : matches \in {JsonPathFind(jsonpath_expr, data)} })
        ELSE SplitError(EmptyCache)
        : jsonpath_expr \in {JsonPathParse(key_path.s)} })

\* key_path.split('.')[-1]: the text after the last dot
RECURSIVE LastSegment(_)
LastSegment(s) ==
    IF IndexFrom(s, ".", 1) = 0 THEN s
    ELSE LastSegment(SubSeq(s, IndexFrom(s, ".", 1) + 1, Len(s)))

\* dict.get(key): None when the key is absent
DictGet(item, key) == IF key \in DOMAIN item.f THEN item.f[key] ELSE None

\* SQLGeneratorProcessorV2.split_json(data, key_path, value): no path is compiled, the
\* record's top-level field named by the last segment of the key is compared
split_json_v2(data, key_path, value) ==
    IF NoKey(key_path) THEN SplitResult(<<>>, data, EmptyCache)
    ELSE The({
        IF data.t = "list"
        THEN (IF \E i \in 1..Len(data.xs) : data.xs[i].t # "obj"
              THEN SplitError(EmptyCache)
              ELSE SplitResult(
                      Filter(data.xs, [i \in 1..Len(data.xs) |-> DictGet(data.xs[i], key) = value]),
                      PyList(Filter(data.xs, [i \in 1..Len(data.xs) |->
                                                 DictGet(data.xs[i], key) # value])),
                      EmptyCache))
        ELSE IF data.t = "obj"
        THEN (IF DictGet(data, key) = value
              THEN SplitResult(<<data>>, PyList(<<>>), EmptyCache)
              ELSE SplitResult(<<>>, PyList(<<data>>), EmptyCache))
        ELSE SplitError(EmptyCache)
        : key \in {LastSegment(key_path.s)} })

(***************************************************************************)
(* Python conversions: str(), repr(), int(), json.dumps(), json.loads()    *)
(***************************************************************************)
DQ == "\""
BS == "\\"

F_a == Chars("a")
F_b == Chars("b")
F_status == Chars("status")
F_id == Chars("id")
F_name == Chars("name")
\* a dict lists its fields in insertion order; the contexts of the model insert them in this order
FieldOrder == <<F_a, F_b, F_id, F_name, F_status>>
FieldsOf(v) == Filter(FieldOrder, [i \in 1..Len(FieldOrder) |-> FieldOrder[i] \in DOMAIN v.f])

\* the escapes of a string literal: q and the backslash get a backslash in front
RECURSIVE Escaped(_, _)
Escaped(s, q) ==
    IF s = <<>> THEN <<>>
    ELSE (IF Head(s) = q \/ Head(s) = BS THEN <<BS, Head(s)>> ELSE <<Head(s)>>) \o Escaped(Tail(s), q)

\* repr(s) of a str: single quotes, unless s holds a single quote and no double quote
StrRepr(s) ==
    IF Contains(s, "'") /\ ~Contains(s, DQ)
    THEN <<DQ>> \o Escaped(s, DQ) \o <<DQ>>
    ELSE <<"'">> \o Escaped(s, "'") \o <<"'">>

RECURSIVE PyRepr(_)
PyRepr(v) ==
    CASE v.t = "null" -> Chars("None")
      [] v.t = "int"  -> IntStr(v.n)
      [] v.t = "str"  -> StrRepr(v.s)
      [] v.t = "list" -> <<"[">> \o Join(Chars(", "), [i \in 1..Len(v.xs) |-> PyRepr(v.xs[i])]) \o <<"]">>
      [] v.t = "obj"  ->
            <<"{">> \o Join(Chars(", "),
                            [i \in 1..Len(FieldsOf(v)) |->
                                StrRepr(FieldsOf(v)[i]) \o Chars(": ") \o PyRepr(v.f[FieldsOf(v)[i]])])
                \o <<"}">>

\* str(v)
PyStrOf(v) == IF v.t = "str" THEN v.s ELSE PyRepr(v)

RECURSIVE JsonDumps(_)
JsonDumps(v) ==
    CASE v.t = "null" -> Chars("null")
      [] v.t = "int"  -> IntStr(v.n)
      [] v.t = "str"  -> <<DQ>> \o Escaped(v.s, DQ) \o <<DQ>>
      [] v.t = "list" -> <<"[">> \o Join(Chars(", "), [i \in 1..Len(v.xs) |-> JsonDumps(v.xs[i])]) \o <<"]">>
      [] v.t = "obj"  ->
            <<"{">> \o Join(Chars(", "),
                            [i \in 1..Len(FieldsOf(v)) |->
                                <<DQ>> \o Escaped(FieldsOf(v)[i], DQ) \o <<DQ>> \o Chars(": ")
                                    \o JsonDumps(v.f[FieldsOf(v)[i]])])
                \o <<"}">>

AllDigits(s) == s # <<>> /\ \A i \in 1..Len(s) : IsDigit(s[i])

\* int(v): [ok, n]; a str is stripped and may carry a sign
IntOfStr(s) ==
    The({ The({ IF AllDigits(unsigned)
                THEN [ok |-> TRUE, n |-> IF Head(body) = "-" THEN -NatVal(unsigned) ELSE NatVal(unsigned)]
                ELSE [ok |-> FALSE, n |-> 0]
                : unsigned \in {IF body # <<>> /\ Head(body) \in {"-", "+"} THEN Tail(body) ELSE body} })
          : body \in {Strip(s)} })
PyIntOf(v) ==
    CASE v.t = "int" -> [ok |-> TRUE, n |-> v.n]
      [] v.t = "str" -> IntOfStr(v.s)
      [] OTHER -> [ok |-> FALSE, n |-> 0]

\* json.loads(text) for documents made of objects, arrays, double-quoted strings without
\* escapes, integers and null: [ok, v, i], i the index after the value
JsonFail == [ok |-> FALSE, v |-> None, i |-> 0]
JsonOk(v, i) == [ok |-> TRUE, v |-> v, i |-> i]

json_string(s, i) ==
    The({ IF close = 0 \/ Contains(SubSeq(s, i + 1, close - 1), BS) THEN JsonFail
          ELSE JsonOk(PyStr(SubSeq(s, i + 1, close - 1)), close + 1)
          : close \in {IndexFrom(s, DQ, i + 1)} })

\* -?(0|[1-9][0-9]*)
json_number(s, i) ==
    The({ IF d > Len(s) \/ ~IsDigit(s[d]) THEN JsonFail
          ELSE The({ JsonOk(PyInt(IF d > i THEN -NatVal(SubSeq(s, d, e - 1)) ELSE NatVal(SubSeq(s, d, e - 1))), e)
                     : e \in {IF s[d] = "0" THEN d + 1 ELSE DigitEnd(s, d)} })
          : d \in {IF s[i] = "-" THEN i + 1 ELSE i} })

RECURSIVE json_value(_, _)
RECURSIVE json_members(_, _, _)
RECURSIVE json_elements(_, _, _)

\* the pairs of an object from the key at i0 on, f the pairs read so far
json_members(s, i0, f) ==
    The({ IF ~PeekIs(s, k, DQ) THEN JsonFail
          ELSE The({ IF ~key.ok \/ ~PeekIs(s, SpaceEnd(s, key.i), ":") THEN JsonFail
                     ELSE The({ IF ~val.ok THEN JsonFail
                                ELSE The({ IF PeekIs(s, j, ",")
                                               THEN json_members(s, j + 1, (key.v.s :> val.v) @@ f)
                                           ELSE IF PeekIs(s, j, "}")
                                               THEN JsonOk(PyObj((key.v.s :> val.v) @@ f), j + 1)
                                           ELSE JsonFail
                                           : j \in {SpaceEnd(s, val.i)} })
                                : val \in {json_value(s, SpaceEnd(s, key.i) + 1)} })
                     : key \in {json_string(s, k)} })
          : k \in {SpaceEnd(s, i0)} })

\* the elements of an array from i0 on, xs the elements read so far
json_elements(s, i0, xs) ==
    The({ IF ~val.ok THEN JsonFail
          ELSE The({ IF PeekIs(s, j, ",") THEN json_elements(s, j + 1, Append(xs, val.v))
                     ELSE IF PeekIs(s, j, "]") THEN JsonOk(PyList(Append(xs, val.v)), j + 1)
                     ELSE JsonFail
                     : j \in {SpaceEnd(s, val.i)} })
          : val \in {json_value(s, i0)} })

json_value(s, i0) ==
    The({ IF i > Len(s) THEN JsonFail
          ELSE IF s[i] = "{"
              THEN The({ IF PeekIs(s, j, "}") THEN JsonOk(PyObj(<<>>), j + 1)
                         ELSE json_members(s, j, <<>>)
                         : j \in {SpaceEnd(s, i + 1)} })
          ELSE IF s[i] = "["
              THEN The({ IF PeekIs(s, j, "]") THEN JsonOk(PyList(<<>>), j + 1)
                         ELSE json_elements(s, j, <<>>)
                         : j \in {SpaceEnd(s, i + 1)} })
          ELSE IF s[i] = DQ THEN json_string(s, i)
          ELSE IF s[i] = "-" \/ IsDigit(s[i]) THEN json_number(s, i)
          ELSE IF i + 3 <= Len(s) /\ SubSeq(s, i, i + 3) = Chars("null") THEN JsonOk(None, i + 4)
          ELSE JsonFail
          : i \in {SpaceEnd(s, i0)} })

\* json.loads(text): [ok, v]; anything after the value but white space is an error
json_loads(text) ==
    The({ IF r.ok /\ SpaceEnd(text, r.i) > Len(text) THEN [ok |-> TRUE, v |-> r.v]
          ELSE [ok |-> FALSE, v |-> None]
          : r \in {json_value(text, 1)} })

\* str.lower() on the letters the Error Handling and default texts use
LowerChar(c) ==
    CASE c = "A" -> "a" [] c = "B" -> "b" [] c = "C" -> "c" [] c = "D" -> "d" [] c = "E" -> "e"
      [] c = "F" -> "f" [] c = "G" -> "g" [] c = "H" -> "h" [] c = "I" -> "i" [] c = "J" -> "j"
      [] c = "K" -> "k" [] c = "L" -> "l" [] c = "M" -> "m" [] c = "N" -> "n" [] c = "O" -> "o"
      [] c = "P" -> "p" [] c = "Q" -> "q" [] c = "R" -> "r" [] c = "S" -> "s" [] c = "T" -> "t"
      [] c = "U" -> "u" [] c = "V" -> "v" [] c = "W" -> "w" [] c = "X" -> "x" [] c = "Y" -> "y"
      [] c = "Z" -> "z" [] OTHER -> c
Lower(s) == [i \in 1..Len(s) |-> LowerChar(s[i])]

(***************************************************************************)
(* SQLGeneratorProcessorV5: formatting, extraction, placeholder evaluation *)
(***************************************************************************)
\* _format(value)
format(value) ==
    CASE value.t = "null" -> Chars("null")
      [] value.t = "int"  -> IntStr(value.n)
      [] value.t = "str"  -> Quoted(DoubleQuotes(value.s))
      [] value.t \in {"obj", "list"} -> Quoted(DoubleQuotes(JsonDumps(value)))

\* _apply_function(func_name, value)
apply_function(func_name, value) ==
    IF value = None THEN Chars("null")
    ELSE IF func_name = Chars("toString") THEN Quoted(DoubleQuotes(PyStrOf(value)))
    ELSE IF func_name = Chars("toInt")
        THEN The({ IF n.ok THEN IntStr(n.n) ELSE Chars("null") : n \in {PyIntOf(value)} })
    ELSE IF func_name = Chars("toJson") THEN Quoted(DoubleQuotes(JsonDumps(value)))
    ELSE format(value)

\* _parse_default(expr)
parse_default(text) ==
    The({ IF expr # <<>> /\ Head(expr) = "'" /\ expr[Len(expr)] = "'"
          THEN PyStr(SubSeq(expr, 2, Len(expr) - 1))
          ELSE IF Lower(expr) = Chars("null") THEN None
          ELSE The({ IF loaded.ok THEN loaded.v ELSE PyStr(expr)
                     : loaded \in {json_loads(expr)} })
          : expr \in {Strip(text)} })

ExtractError(cache, parsed) == [err |-> TRUE, value |-> None, cache |-> cache, parsed |-> parsed]

\* _extract returning None for a path without matches, the default forgotten
extract_without_default(cache, context, path, default) ==
    IF path = <<"$">> THEN [err |-> FALSE, value |-> context, cache |-> cache, parsed |-> <<>>]
    ELSE The({
        IF got.err THEN ExtractError(got.cache, IF got.parsed THEN <<path>> ELSE <<>>)
        ELSE The({
            IF matches.err THEN ExtractError(got.cache, IF got.parsed THEN <<path>> ELSE <<>>)
            ELSE [err |-> FALSE,
                  value |-> IF matches.vals = <<>> THEN None
                            ELSE IF Len(matches.vals) = 1 THEN matches.vals[1]
                            ELSE PyList(matches.vals),
                  cache |-> got.cache,
                  parsed |-> IF got.parsed THEN <<path>> ELSE <<>>]
            : matches \in {JsonPathFind(got.expr, context)} })
        : got \in {get_expr(cache, path)} })

\* _extract that also compiles, and so caches, a string it has read from the record
extract_caching_value(cache, context, path, default) ==
    IF path = <<"$">> THEN [err |-> FALSE, value |-> context, cache |-> cache, parsed |-> <<>>]
    ELSE The({
        IF got.err THEN ExtractError(got.cache, IF got.parsed THEN <<path>> ELSE <<>>)
        ELSE The({
            IF matches.err THEN ExtractError(got.cache, IF got.parsed THEN <<path>> ELSE <<>>)
            ELSE [err |-> FALSE,
                  value |-> IF matches.vals = <<>> THEN default
                            ELSE IF Len(matches.vals) = 1 THEN matches.vals[1]
                            ELSE PyList(matches.vals),
                  cache |-> IF Len(matches.vals) = 1 /\ matches.vals[1].t = "str"
                            THEN [q \in DOMAIN got.cache \cup {matches.vals[1].s} |->
                                     IF q \in DOMAIN got.cache THEN got.cache[q]
                                     ELSE JsonPathParse(q)]
                            ELSE got.cache,
                  parsed |-> IF got.parsed THEN <<path>> ELSE <<>>]
            : matches \in {JsonPathFind(got.expr, context)} })
        : got \in {get_expr(cache, path)} })

\* _extract(context, path, default) on a cache: the value, the cache afterwards and the
\* path texts parse() ran for
extract(cache, context, path, default) ==
    IF path = <<"$">> THEN [err |-> FALSE, value |-> context, cache |-> cache, parsed |-> <<>>]
    ELSE The({
        IF got.err THEN ExtractError(got.cache, IF got.parsed THEN <<path>> ELSE <<>>)
        ELSE The({
            IF matches.err THEN ExtractError(got.cache, IF got.parsed THEN <<path>> ELSE <<>>)
            ELSE [err |-> FALSE,
                  value |-> IF matches.vals = <<>> THEN default
                            ELSE IF Len(matches.vals) = 1 THEN matches.vals[1]
                            ELSE PyList(matches.vals),
                  cache |-> got.cache,
                  parsed |-> IF got.parsed THEN <<path>> ELSE <<>>]
            : matches \in {JsonPathFind(got.expr, context)} })
        : got \in {get_expr(cache, path)} })

\* re.match(r'^(\w+)\((.*)\)$', expr): a name, an opening parenthesis, and a closing one at the
\* end; the index of the opening parenthesis, 0 when expr has not this form
FunctionForm(expr) ==
    The({ IF w > 1 /\ w < Len(expr) /\ expr[w] = "(" /\ expr[Len(expr)] = ")" THEN w ELSE 0
          : w \in {WordEnd(expr, 1)} })

\* s.split(',', 1), each part stripped
SplitComma(s) ==
    The({ IF c = 0 THEN <<Strip(s)>>
          ELSE <<Strip(SubSeq(s, 1, c - 1)), Strip(SubSeq(s, c + 1, Len(s)))>>
          : c \in {IndexFrom(s, ",", 1)} })

\* _eval_placeholder(expr, context): [err, text, cache, parsed]
eval_placeholder(cache, text, context) ==
    The({ The({ The({ The({
        [err |-> got.err,
         text |-> IF got.err THEN <<>>
                  ELSE IF open > 0 THEN apply_function(SubSeq(expr, 1, open - 1), got.value)
                  ELSE format(got.value),
         cache |-> got.cache, parsed |-> got.parsed]
        : got \in {extract(cache, context, args[1],
                           IF Len(args) > 1 THEN parse_default(args[2]) ELSE None)} })
        : args \in {IF open > 0 THEN SplitComma(SubSeq(expr, open + 1, Len(expr) - 1))
                    ELSE SplitComma(expr)} })
        : open \in {FunctionForm(expr)} })
        : expr \in {Strip(text)} })

\* _placeholder_regex r'\$\{([^}]*)}' tried at position i: the index of the closing brace, 0 for no match
PlaceholderEndV5(s, i) ==
    IF i + 1 <= Len(s) /\ s[i] = "$" /\ s[i + 1] = "{" THEN IndexFrom(s, "}", i + 2) ELSE 0

\* _render(template, context): re.sub from position i on, the replacement function called
\* match by match from left to right; an exception of a replacement ends the call
RECURSIVE render_from(_, _, _, _)
render_from(cache, template, context, i) ==
    IF i > Len(template) THEN [err |-> FALSE, text |-> <<>>, cache |-> cache, parsed |-> <<>>]
    ELSE The({
        IF close = 0
        THEN The({ [rest EXCEPT !.text = IF rest.err THEN <<>> ELSE <<template[i]>> \o rest.text]
                   : rest \in {render_from(cache, template, context, i + 1)} })
        ELSE The({
            IF one.err THEN one
            ELSE The({ [rest EXCEPT !.text = IF rest.err THEN <<>> ELSE one.text \o rest.text,
                                    !.parsed = one.parsed \o rest.parsed]
                       : rest \in {render_from(one.cache, template, context, close + 1)} })
            : one \in {eval_placeholder(cache, SubSeq(template, i + 2, close - 1), context)} })
        : close \in {PlaceholderEndV5(template, i)} })

render(cache, template, context) == render_from(cache, template, context, 1)


(***************************************************************************)
(* SQLGeneratorProcessorV2: jmespath lookup, the expression parser, the    *)
(* functions toInt, toStr and append, and replace_placeholders             *)
(***************************************************************************)
\* jmespath.compile(text), for the forms name, a.b, [*].a, [0].a; '$' is no jmespath token
jmespath_compile(text) ==
    IF text # <<>> /\ Head(text) = "$" THEN ParseError ELSE PathSteps(text, 1, <<>>)

\* the interpreter of jmespath: a field or an index that is absent gives null, a projection
\* [*] applies the rest of the expression to every element and drops the nulls
RECURSIVE jmespath_visit(_, _)
jmespath_visit(steps, v) ==
    IF steps = <<>> THEN v
    ELSE CASE Head(steps).k = "field" ->
                IF v.t = "obj" /\ Head(steps).name \in DOMAIN v.f
                THEN jmespath_visit(Tail(steps), v.f[Head(steps).name])
                ELSE None
           [] Head(steps).k = "idx" ->
                IF v.t = "list" /\ Len(v.xs) > Head(steps).i
                THEN jmespath_visit(Tail(steps), v.xs[Head(steps).i + 1])
                ELSE None
           [] Head(steps).k = "all" ->
                IF v.t = "list"
                THEN The({ PyList(Filter(each, [i \in 1..Len(each) |-> each[i] # None]))
                           : each \in {[i \in 1..Len(v.xs) |-> jmespath_visit(Tail(steps), v.xs[i])]} })
                ELSE None
           [] OTHER -> None

\* get_parameters(data, expression): [err, v]
get_parameters(data, expression) ==
    The({ IF compiled.ok THEN [err |-> FALSE, v |-> jmespath_visit(compiled.steps, data)]
          ELSE [err |-> TRUE, v |-> None]
          : compiled \in {jmespath_compile(LStripSet(LStripSet(expression, {"$"}), {"."}))} })

\* get_variable_value(varname, data)
get_variable_value(varname, data) ==
    get_parameters(data, LStripSet(LStripSet(varname, {"$"}), {"."}))

\* the tuples parse_expression returns
Variable(name) == [k |-> "variable", name |-> name, args |-> <<>>, n |-> 0]
StringLit(s) == [k |-> "string", name |-> s, args |-> <<>>, n |-> 0]
NumberLit(n) == [k |-> "number", name |-> <<>>, args |-> <<>>, n |-> n]
FunctionCall(name, args) == [k |-> "function", name |-> name, args |-> args, n |-> 0]

\* a parse result: the tuple and the parser's index afterwards (1-based), or the ValueError
Parsed(ast, i) == [err |-> FALSE, ast |-> ast, i |-> i]
ExprError(i) == [err |-> TRUE, ast |-> Variable(<<>>), i |-> i]

\* ExpressionParser.parse_variable, the parser standing on '$' at i
RECURSIVE VariableEnd(_, _)
VariableEnd(s, i) ==
    IF i <= Len(s) /\ s[i] \notin {" ", ",", ")", "(", "'"} THEN VariableEnd(s, i + 1) ELSE i
parse_variable(s, i) ==
    The({ Parsed(Variable(SubSeq(s, i, e - 1)), e) : e \in {VariableEnd(s, i + 1)} })

\* ExpressionParser.parse_string, the parser standing on the opening quote at i
parse_string(s, i) ==
    The({ IF close = 0 THEN ExprError(Len(s) + 1)
          ELSE Parsed(StringLit(SubSeq(s, i + 1, close - 1)), close + 1)
          : close \in {IndexFrom(s, s[i], i + 1)} })

\* ExpressionParser.parse_number
parse_number(s, i) ==
    The({ Parsed(NumberLit(NatVal(SubSeq(s, i, e - 1))), e) : e \in {DigitEnd(s, i)} })

RECURSIVE parse_expression(_, _)
RECURSIVE parse_function_call(_, _, _, _)

\* ExpressionParser.parse_function_call_or_variable
parse_function_call_or_variable(s, i) ==
    The({ The({ IF PeekIs(s, open, "(")
                THEN parse_function_call(s, SubSeq(s, i, e - 1), open + 1, <<>>)
                ELSE Parsed(Variable(SubSeq(s, i, e - 1)), open)
                : open \in {SpaceEnd(s, e)} })
          : e \in {WordEnd(s, i)} })

\* ExpressionParser.parse_function_call: the loop over the arguments, the parser at i0 with
\* the arguments args read so far
parse_function_call(s, name, i0, args) ==
    The({ IF PeekIs(s, i, ")") THEN Parsed(FunctionCall(name, args), i + 1)
          ELSE The({ IF arg.err THEN arg
                     ELSE The({ IF PeekIs(s, j, ",")
                                    THEN parse_function_call(s, name, j + 1, Append(args, arg.ast))
                                ELSE IF PeekIs(s, j, ")")
                                    THEN parse_function_call(s, name, j, Append(args, arg.ast))
                                ELSE ExprError(j)
                                : j \in {SpaceEnd(s, arg.i)} })
                     : arg \in {parse_expression(s, i)} })
          : i \in {SpaceEnd(s, i0)} })

\* ExpressionParser.parse_expression
parse_expression(s, i0) ==
    The({ IF i > Len(s) THEN ExprError(i)
          ELSE IF IsAlpha(s[i]) THEN parse_function_call_or_variable(s, i)
          ELSE IF s[i] = "$" THEN parse_variable(s, i)
          ELSE IF s[i] \in {"'", DQ} THEN parse_string(s, i)
          ELSE IF IsDigit(s[i]) THEN parse_number(s, i)
          ELSE ExprError(i)
          : i \in {SpaceEnd(s, i0)} })

EvalError == [err |-> TRUE, v |-> None]
Value(v) == [err |-> FALSE, v |-> v]

\* the arguments of toInt and toStr with the lists among them spread out
SpreadLists(args) ==
    Flatten([i \in 1..Len(args) |-> IF args[i].t = "list" THEN args[i].xs ELSE <<args[i]>>])

\* toInt(*args)
toInt(args) ==
    The({ IF items = <<>> \/ \E i \in 1..Len(items) : ~PyIntOf(items[i]).ok THEN EvalError
          ELSE IF Len(items) > 1 THEN Value(PyList([i \in 1..Len(items) |-> PyInt(PyIntOf(items[i]).n)]))
          ELSE Value(PyInt(PyIntOf(items[1]).n))
          : items \in {SpreadLists(args)} })

\* toStr(*args)
toStr(args) ==
    The({ IF items = <<>> THEN EvalError
          ELSE IF Len(items) > 1 THEN Value(PyList([i \in 1..Len(items) |-> PyStr(PyStrOf(items[i]))]))
          ELSE Value(PyStr(PyStrOf(items[1])))
          : items \in {SpreadLists(args)} })

\* append(*args)
append(args) ==
    IF args = <<>> THEN EvalError
    ELSE The({ The({ Value(PyStr(Join(<<",">>,
                        [i \in 1..Len(items) |-> Quoted(PyStrOf(items[i])) \o suffix])))
                     : items \in {SpreadLists(SubSeq(args, 1, Len(args) - 1))} })
               : suffix \in {IF args[Len(args)].t = "str" THEN args[Len(args)].s ELSE <<>>} })

\* call_function(func_name, args)
call_function(func_name, args) ==
    IF func_name = Chars("toInt") THEN toInt(args)
    ELSE IF func_name = Chars("toStr") THEN toStr(args)
    ELSE IF func_name = Chars("append") THEN append(args)
    ELSE EvalError

\* evaluate(expr, data)
RECURSIVE evaluate(_, _)
evaluate(expr, data) ==
    CASE expr.k = "function" ->
            The({ IF \E i \in 1..Len(args) : args[i].err THEN EvalError
                  ELSE call_function(expr.name, [i \in 1..Len(args) |-> args[i].v])
                  : args \in {[i \in 1..Len(expr.args) |-> evaluate(expr.args[i], data)]} })
      [] expr.k = "variable" -> get_variable_value(expr.name, data)
      [] expr.k = "string"   -> Value(PyStr(expr.name))
      [] expr.k = "number"   -> Value(PyInt(expr.n))

\* the text the replacer puts for the result of a function call
FunctionText(result) ==
    IF result.t = "list"
    THEN Join(Chars(", "), [i \in 1..Len(result.xs) |-> PyStrOf(result.xs[i])])
    ELSE PyStrOf(result)

\* f"'{item}'" if isinstance(item, str) else str(item)
QuotedIfStr(item) == IF item.t = "str" THEN Quoted(item.s) ELSE PyStrOf(item)

\* the text the replacer puts for the result of a variable or a literal
VariableText(result) ==
    IF result.t = "list"
    THEN Join(Chars(", "), [i \in 1..Len(result.xs) |-> QuotedIfStr(result.xs[i])])
    ELSE QuotedIfStr(result)

\* replacer(match) of replace_placeholders, text being group 1 of the match: [err, text]
replacer(text, data) ==
    The({ IF parsed.err THEN [err |-> TRUE, text |-> <<>>]
          ELSE The({ IF result.err THEN [err |-> TRUE, text |-> <<>>]
                     ELSE [err |-> FALSE,
                           text |-> IF parsed.ast.k = "function" THEN FunctionText(result.v)
                                    ELSE VariableText(result.v)]
                     : result \in {evaluate(parsed.ast, data)} })
          : parsed \in {parse_expression(Strip(text), 1)} })

\* the pattern r"\${\s*(.*?)\s*}" tried at position i: the index of the closing brace, 0 for no match
PlaceholderEndV2(s, i) ==
    IF i + 1 <= Len(s) /\ s[i] = "$" /\ s[i + 1] = "{" THEN IndexFrom(s, "}", i + 2) ELSE 0

\* re.sub(pattern, replacer, template) from position i on; an exception of the replacer ends it
RECURSIVE replace_from(_, _, _)
replace_from(template, data, i) ==
    IF i > Len(template) THEN [err |-> FALSE, text |-> <<>>]
    ELSE The({
        IF close = 0
        THEN The({ [rest EXCEPT !.text = IF rest.err THEN <<>> ELSE <<template[i]>> \o rest.text]
                   : rest \in {replace_from(template, data, i + 1)} })
        ELSE The({
            IF one.err THEN one
            ELSE The({ [rest EXCEPT !.text = IF rest.err THEN <<>> ELSE one.text \o rest.text]
                       : rest \in {replace_from(template, data, close + 1)} })
            : one \in {replacer(SubSeq(template, i + 2, close - 1), data)} })
        : close \in {PlaceholderEndV2(template, i)} })

\* replace_placeholders(template, data)
replace_placeholders(template, data) == replace_from(template, data, 1)

(***************************************************************************)
(* SQLGeneratorProcessorV3: extract_jsonpaths, evaluate_jsonpath and       *)
(* generate_sql                                                            *)
(***************************************************************************)
\* the pattern r'\$\{(.*?)\}' tried at position i: the index of the closing brace, 0 for no match
PlaceholderEndV3(s, i) ==
    IF i + 1 <= Len(s) /\ s[i] = "$" /\ s[i + 1] = "{" THEN IndexFrom(s, "}", i + 2) ELSE 0

\* extract_jsonpaths(template): re.findall, group 1 of the matches from position i on
RECURSIVE jsonpaths_from(_, _)
jsonpaths_from(template, i) ==
    IF i > Len(template) THEN <<>>
    ELSE The({ IF close = 0 THEN jsonpaths_from(template, i + 1)
               ELSE <<SubSeq(template, i + 2, close - 1)>> \o jsonpaths_from(template, close + 1)
               : close \in {PlaceholderEndV3(template, i)} })
extract_jsonpaths(template) == jsonpaths_from(template, 1)

\* evaluate_jsonpath(data, jsonpath_expr): the matched values, [] on any exception
evaluate_jsonpath(data, jsonpath_expr) ==
    The({ IF ~compiled.ok THEN <<>>
          ELSE The({ IF found.err THEN <<>> ELSE found.vals
                     : found \in {JsonPathFind(compiled, data)} })
          : compiled \in {JsonPathParse(jsonpath_expr)} })

\* needle in s
RECURSIVE HasSubstring(_, _)
HasSubstring(s, needle) ==
    IF Len(s) < Len(needle) THEN FALSE
    ELSE SubSeq(s, 1, Len(needle)) = needle \/ HasSubstring(Tail(s), needle)

\* s.replace(old, new), old not empty
RECURSIVE StrReplace(_, _, _)
StrReplace(s, old, new) ==
    IF Len(s) < Len(old) THEN s
    ELSE IF SubSeq(s, 1, Len(old)) = old
        THEN new \o StrReplace(SubSeq(s, Len(old) + 1, Len(s)), old, new)
    ELSE <<Head(s)>> \o StrReplace(Tail(s), old, new)

\* for jp in jsonpaths: sql = sql.replace('${' + jp + '}', replacements[jp]), from the k-th on
RECURSIVE ReplaceEach(_, _, _, _)
ReplaceEach(sql, jsonpaths, replacements, k) ==
    IF k > Len(jsonpaths) THEN sql
    ELSE ReplaceEach(StrReplace(sql, Chars("${") \o jsonpaths[k] \o <<"}">>, replacements[jsonpaths[k]]),
                     jsonpaths, replacements, k + 1)

\* f"'{v}'" if isinstance(v, (str, bytes)) else str(v), joined by ','
AggregatedText(values) ==
    Join(<<",">>, [i \in 1..Len(values) |-> QuotedIfStr(values[i])])

\* str(values[0]) if values else ''
FirstText(values) == IF values = <<>> THEN <<>> ELSE PyStrOf(values[1])

\* the statement of one context: every placeholder text replaced by its replacement, ';' appended
Statement(template, jsonpaths, context, aggregated) ==
    ReplaceEach(template, jsonpaths,
                [jp \in {jsonpaths[k] : k \in 1..Len(jsonpaths)} |->
                    IF aggregated THEN AggregatedText(evaluate_jsonpath(context, jp))
                    ELSE FirstText(evaluate_jsonpath(context, jp))],
                1) \o <<";">>

\* generate_sql(data, template), data a list: the list of statements
generate_sql(data, template) ==
    The({ IF \E k \in 1..Len(jsonpaths) : HasSubstring(jsonpaths[k], Chars("[*]"))
          THEN <<Statement(template, jsonpaths, PyList(data), TRUE)>>
          ELSE [i \in 1..Len(data) |-> Statement(template, jsonpaths, data[i], FALSE)]
          : jsonpaths \in {extract_jsonpaths(template)} })


(***************************************************************************)
(* FlowFiles, processor properties and transform results                   *)
(***************************************************************************)
\* nifiapi: FlowFileTransformResult(relationship, attributes = None, contents = None)
FlowFileTransformResult(relationship, attributes, contents) ==
    [raised |-> FALSE, relationship |-> relationship, attributes |-> attributes, contents |-> contents]

\* an exception leaves transform
Raised == [raised |-> TRUE, relationship |-> "", attributes |-> None, contents |-> None]

\* what a transform did: its result, whether the error handler produced it, and a log of
\* what it evaluated (1.0.x: the calls of replace_placeholder; V2, V3, V5: the statements
\* rendered)
Outcome(result, handled, log) == [result |-> result, handled |-> handled, log |-> log]

\* `not value` of a property: unset or the empty string
Unset(value) == value = None \/ value.s = <<>>

\* (value or 'original').lower()
ErrorHandlingOf(value, default) == IF Unset(value) THEN Lower(default) ELSE Lower(value.s)

(***************************************************************************)
(* SQLGeneratorProcessor 1.0.1, 1.0.2, 1.0.4 (lenient) and 1.0.6, 1.0.7    *)
(* (strict)                                                                *)
(***************************************************************************)
ExpressionError == [err |-> TRUE, text |-> <<>>]
ExpressionText(text) == [err |-> FALSE, text |-> text]

\* evaluate_expression(expression, json_data) of 1.0.1, 1.0.2, 1.0.4 and 1.0.6
evaluate_expression(expression, json_data) ==
    The({ IF ~jsonpath_expr.ok THEN ExpressionError
          ELSE The({ IF found.err \/ found.vals = <<>> THEN ExpressionError
                     ELSE IF Len(found.vals) > 1
                         THEN ExpressionText(Join(<<",">>, [i \in 1..Len(found.vals) |->
                                                               PyStrOf(found.vals[i])]))
                     ELSE ExpressionText(PyStrOf(found.vals[1]))
                     : found \in {JsonPathFind(jsonpath_expr, json_data)} })
          : jsonpath_expr \in {JsonPathParse(expression)} })

\* s is one or more word characters
IsWordText(s) == s # <<>> /\ \A i \in 1..Len(s) : IsWord(s[i])

\* `key in item` followed by str(item[key]): only a dict that has the key gives a value
KeyText(item, key) ==
    IF item.t = "obj" /\ key \in DOMAIN item.f THEN ExpressionText(PyStrOf(item.f[key]))
    ELSE ExpressionError

\* evaluate_expression(expression, json_data) of 1.0.7: the three patterns $.key,
\* $[index].key and $[*].key
evaluate_expression_v1_0_7(expression, json_data) ==
    IF Len(expression) > 2 /\ SubSeq(expression, 1, 2) = Chars("$.")
          /\ IsWordText(SubSeq(expression, 3, Len(expression)))
    THEN KeyText(json_data, SubSeq(expression, 3, Len(expression)))
    ELSE IF Len(expression) > 2 /\ SubSeq(expression, 1, 2) = Chars("$[")
               /\ DigitEnd(expression, 3) > 3
               /\ DigitEnd(expression, 3) + 1 < Len(expression)
               /\ SubSeq(expression, DigitEnd(expression, 3), DigitEnd(expression, 3) + 1) = Chars("].")
               /\ IsWordText(SubSeq(expression, DigitEnd(expression, 3) + 2, Len(expression)))
    THEN The({ IF json_data.t = "list" /\ index < Len(json_data.xs)
               THEN KeyText(json_data.xs[index + 1],
                            SubSeq(expression, DigitEnd(expression, 3) + 2, Len(expression)))
               ELSE ExpressionError
               : index \in {NatVal(SubSeq(expression, 3, DigitEnd(expression, 3) - 1))} })
    ELSE IF Len(expression) > 5 /\ SubSeq(expression, 1, 5) = Chars("$[*].")
               /\ IsWordText(SubSeq(expression, 6, Len(expression)))
    THEN The({ IF json_data.t # "list" \/ \E i \in 1..Len(values) : values[i].err
               THEN ExpressionError
               ELSE ExpressionText(Join(<<",">>, [i \in 1..Len(values) |-> values[i].text]))
               : values \in {IF json_data.t = "list"
                             THEN [i \in 1..Len(json_data.xs) |->
                                      KeyText(json_data.xs[i], SubSeq(expression, 6, Len(expression)))]
                             ELSE <<>>} })
    ELSE ExpressionError

\* self.evaluate_expression of the version
EvaluateIn(version, expression, json_data) ==
    IF version = "1.0.7" THEN evaluate_expression_v1_0_7(expression, json_data)
    ELSE evaluate_expression(expression, json_data)

\* the pattern r'\$\{([^}]+)\}' tried at position i: the index of the closing brace, 0 for no match
PlaceholderEndV1(s, i) ==
    IF i + 1 <= Len(s) /\ s[i] = "$" /\ s[i + 1] = "{" /\ IndexFrom(s, "}", i + 2) > i + 2
    THEN IndexFrom(s, "}", i + 2) ELSE 0

\* replace_placeholder with the exception passed on where 1.0.1, 1.0.2 and 1.0.4 return ''
replace_placeholder_raising(version, lenient, expression, json_data) ==
    The({ [err |-> value.err, raised |-> value.err, expr |-> expression,
           text |-> IF value.err THEN <<>> ELSE value.text]
          : value \in {EvaluateIn(version, expression, json_data)} })

\* replace_placeholder(match) inside transform, expression being group 1 of the match: the
\* text put for the placeholder; an expression that raises gives '' when lenient (1.0.1,
\* 1.0.2, 1.0.4) and makes replace_placeholder raise (err) otherwise (1.0.6, 1.0.7)
replace_placeholder(version, lenient, expression, json_data) ==
    The({ [err |-> value.err /\ ~lenient, raised |-> value.err, expr |-> expression,
           text |-> IF value.err THEN <<>> ELSE value.text]
          : value \in {EvaluateIn(version, expression, json_data)} })

\* re.sub(pattern, replace_placeholder, template) from position i on: [err, text, log], the
\* log holding the calls of replace_placeholder in order
RECURSIVE substitute_from(_, _, _, _, _)
substitute_from(version, lenient, template, json_data, i) ==
    IF i > Len(template) THEN [err |-> FALSE, text |-> <<>>, log |-> <<>>]
    ELSE The({
        IF close = 0
        THEN The({ [rest EXCEPT !.text = IF rest.err THEN <<>> ELSE <<template[i]>> \o rest.text]
                   : rest \in {substitute_from(version, lenient, template, json_data, i + 1)} })
        ELSE The({
            IF one.err THEN [err |-> TRUE, text |-> <<>>, log |-> <<one>>]
            ELSE The({ [rest EXCEPT !.text = IF rest.err THEN <<>> ELSE one.text \o rest.text,
                                    !.log = <<one>> \o rest.log]
                       : rest \in {substitute_from(version, lenient, template, json_data, close + 1)} })
            : one \in {replace_placeholder(version, lenient,
                                           SubSeq(template, i + 2, close - 1), json_data)} })
        : close \in {PlaceholderEndV1(template, i)} })

GeneratedSql == Chars("generated_sql")

\* SQLGeneratorProcessor 1.0.1: transform
transform_v1_0_1(props, flowfile) ==
    IF props.template = None THEN Outcome(FlowFileTransformResult("failure", None, None), FALSE, <<>>)
    ELSE The({
        IF ~json_data.ok THEN Outcome(FlowFileTransformResult("failure", None, None), FALSE, <<>>)
        ELSE The({ IF sql.err THEN Outcome(Raised, FALSE, sql.log)
                   ELSE Outcome(FlowFileTransformResult("success",
                                                        PyObj(GeneratedSql :> PyStr(sql.text)), None),
                                FALSE, sql.log)
                   : sql \in {substitute_from("1.0.1", TRUE, props.template.s, json_data.v, 1)} })
        : json_data \in {json_loads(flowfile.content)} })

\* SQLGeneratorProcessor 1.0.2: transform
transform_v1_0_2(props, flowfile) ==
    IF Unset(props.template) THEN Outcome(FlowFileTransformResult("failure", None, None), FALSE, <<>>)
    ELSE The({
        IF ~json_data.ok THEN Outcome(FlowFileTransformResult("failure", None, None), FALSE, <<>>)
        ELSE The({
            IF sql.err THEN Outcome(Raised, FALSE, sql.log)
            ELSE IF props.destination = PyStr(Chars("content"))
            THEN Outcome(FlowFileTransformResult("success", None, PyStr(sql.text)), FALSE, sql.log)
            ELSE IF props.destination = PyStr(Chars("attribute"))
            THEN Outcome(FlowFileTransformResult("success",
                                                 PyObj(GeneratedSql :> PyStr(sql.text)), None),
                         FALSE, sql.log)
            ELSE Outcome(FlowFileTransformResult("failure", None, None), FALSE, sql.log)
            : sql \in {substitute_from("1.0.2", TRUE, props.template.s, json_data.v, 1)} })
        : json_data \in {json_loads(flowfile.content)} })

\* SQLGeneratorProcessor 1.0.4: transform
transform_v1_0_4(props, flowfile) ==
    IF Unset(props.template) THEN Outcome(FlowFileTransformResult("failure", None, None), FALSE, <<>>)
    ELSE The({ The({
        IF ~json_data.ok THEN Outcome(FlowFileTransformResult("failure", None, None), FALSE, <<>>)
        ELSE The({
            IF sql.err THEN Outcome(Raised, FALSE, sql.log)
            ELSE IF output_destination = PyStr(Chars("flowfile-content"))
            THEN Outcome(FlowFileTransformResult("success", flowfile.attributes, PyStr(sql.text)),
                         FALSE, sql.log)
            ELSE IF output_destination = PyStr(Chars("flowfile-attribute"))
            THEN Outcome(FlowFileTransformResult("success",
                            PyObj((IF Unset(props.attribute_name) THEN GeneratedSql
                                   ELSE props.attribute_name.s) :> PyStr(sql.text)),
                            None),
                         FALSE, sql.log)
            ELSE Outcome(FlowFileTransformResult("failure", None, None), FALSE, sql.log)
            : sql \in {substitute_from("1.0.4", TRUE, props.template.s, json_data.v, 1)} })
        : json_data \in {json_loads(flowfile.content)} })
        : output_destination \in {IF Unset(props.destination) THEN PyStr(Chars("flowfile-attribute"))
                                  ELSE props.destination} })


(***************************************************************************)
(* SQLGeneratorProcessor 1.0.6 and 1.0.7: transform and handle_error       *)
(***************************************************************************)
\* handle_error(flowfile, error_handling) of 1.0.6 and 1.0.7
handle_error_v1_0_7(flowfile, error_handling) ==
    IF error_handling = Chars("pass") THEN FlowFileTransformResult("success", None, None)
    ELSE IF error_handling = Chars("failure") THEN FlowFileTransformResult("failure", None, None)
    ELSE Raised

\* transform of 1.0.6 and 1.0.7, which differ in evaluate_expression and in the word put for
\* an unset Error Handling
transform_conditional(version, props, flowfile) ==
    The({ The({
        IF ~json_data.ok THEN Outcome(handle_error_v1_0_7(flowfile, error_handling), TRUE, <<>>)
        ELSE The({
            IF actual_value.err
            THEN Outcome(handle_error_v1_0_7(flowfile, error_handling), TRUE, <<>>)
            ELSE The({
                IF Unset(sql_template_to_use)
                THEN Outcome(handle_error_v1_0_7(flowfile, error_handling), TRUE, <<>>)
                ELSE The({
                    IF sql.err
                    THEN Outcome(handle_error_v1_0_7(flowfile, error_handling), TRUE, sql.log)
                    ELSE IF Lower(props.store_in_content.s) = Chars("true")
                    THEN Outcome(FlowFileTransformResult("success", flowfile.attributes,
                                                         PyStr(sql.text)),
                                 FALSE, sql.log)
                    ELSE Outcome(FlowFileTransformResult("success",
                                    PyObj(((IF Unset(props.attribute_name) THEN GeneratedSql
                                            ELSE props.attribute_name.s) :> PyStr(sql.text))
                                          @@ flowfile.attributes.f),
                                    None),
                                 FALSE, sql.log)
                    : sql \in {substitute_from(version, FALSE, sql_template_to_use.s,
                                               json_data.v, 1)} })
                : sql_template_to_use \in
                    {IF ~Unset(props.cond_key) /\ ~Unset(props.cond_val) /\ ~Unset(props.cond_template)
                        /\ actual_value.text = props.cond_val.s
                     THEN props.cond_template ELSE props.template} })
            : actual_value \in
                {IF ~Unset(props.cond_key) /\ ~Unset(props.cond_val) /\ ~Unset(props.cond_template)
                 THEN EvaluateIn(version, props.cond_key.s, json_data.v)
                 ELSE ExpressionText(<<>>)} })
        : json_data \in {json_loads(flowfile.content)} })
        : error_handling \in {ErrorHandlingOf(props.error_handling,
                                              IF version = "1.0.6" THEN Chars("return")
                                              ELSE Chars("original"))} })

transform_v1_0_6(props, flowfile) == transform_conditional("1.0.6", props, flowfile)
transform_v1_0_7(props, flowfile) == transform_conditional("1.0.7", props, flowfile)

(***************************************************************************)
(* SQLGeneratorProcessorV2, V3 and V5: transform and the error handlers.   *)
(* The log of their outcome holds the statements rendered.                 *)
(***************************************************************************)
\* handle_error(flowfile, error_handling) of V2 and V3
handle_error(flowfile, error_handling) ==
    IF error_handling = Chars("pass")
    THEN FlowFileTransformResult("success", flowfile.attributes, PyStr(flowfile.content))
    ELSE IF error_handling = Chars("failure") THEN FlowFileTransformResult("failure", None, None)
    ELSE Raised

\* json_data = [json_data] for a dict; [ok, v], not ok when it is neither dict nor list
AsList(json_data) ==
    IF json_data.t = "obj" THEN [ok |-> TRUE, v |-> PyList(<<json_data>>)]
    ELSE IF json_data.t = "list" THEN [ok |-> TRUE, v |-> json_data]
    ELSE [ok |-> FALSE, v |-> None]

\* SQLGeneratorProcessorV3.transform
transform_v3(props, flowfile) ==
    The({ The({
        IF ~loaded.ok \/ ~AsList(loaded.v).ok
        THEN Outcome(handle_error(flowfile, error_handling), TRUE, <<>>)
        ELSE The({
            IF split.err THEN Outcome(Raised, FALSE, <<>>)
            ELSE The({
                Outcome(FlowFileTransformResult("success", flowfile.attributes,
                                                PyStr(Join(Chars("; "), sql_statements))),
                        FALSE, sql_statements)
                : sql_statements \in
                    {(IF Truthy(split.unmatched) /\ ~Unset(props.template)
                      THEN generate_sql(split.unmatched.xs, props.template.s) ELSE <<>>)
                     \o (IF split.matched # <<>> /\ ~Unset(props.cond_template)
                         THEN generate_sql(split.matched, props.cond_template.s) ELSE <<>>)} })
            : split \in {split_json_v3(AsList(loaded.v).v, props.cond_key, props.cond_val)} })
        : loaded \in {json_loads(flowfile.content)} })
        : error_handling \in {ErrorHandlingOf(props.error_handling, Chars("original"))} })

\* SQLGeneratorProcessorV2.transform
transform_v2(props, flowfile) ==
    The({ The({
        IF ~loaded.ok \/ ~AsList(loaded.v).ok
        THEN Outcome(handle_error(flowfile, error_handling), TRUE, <<>>)
        ELSE The({
            IF split.err THEN Outcome(Raised, FALSE, <<>>)
            ELSE The({
                IF first.err THEN Outcome(handle_error(flowfile, error_handling), TRUE, <<>>)
                ELSE The({
                    IF second.err
                    THEN Outcome(handle_error(flowfile, error_handling), TRUE, first.sql)
                    ELSE Outcome(FlowFileTransformResult("success", flowfile.attributes,
                                    PyStr(Join(Chars("; "), first.sql \o second.sql))),
                                 FALSE, first.sql \o second.sql)
                    : second \in
                        {IF split.matched # <<>> /\ ~Unset(props.cond_template)
                         THEN The({ [err |-> r.err, sql |-> IF r.err THEN <<>> ELSE <<r.text>>]
                                    : r \in {replace_placeholders(props.cond_template.s,
                                                                  PyList(split.matched))} })
                         ELSE [err |-> FALSE, sql |-> <<>>]} })
                : first \in
                    {IF Truthy(split.unmatched) /\ ~Unset(props.template)
                     THEN The({ [err |-> r.err, sql |-> IF r.err THEN <<>> ELSE <<r.text>>]
                                : r \in {replace_placeholders(props.template.s, split.unmatched)} })
                     ELSE [err |-> FALSE, sql |-> <<>>]} })
            : split \in {split_json_v2(AsList(loaded.v).v, props.cond_key, props.cond_val)} })
        : loaded \in {json_loads(flowfile.content)} })
        : error_handling \in {ErrorHandlingOf(props.error_handling, Chars("original"))} })

\* SQLGeneratorProcessorV5._handle_error(flowfile, strategy). The arguments of the 'pass'
\* result are positional: the content bytes stand where the constructor takes the
\* attributes, and the attributes where it takes the contents
handle_error_v5(flowfile, strategy) ==
    IF strategy = Chars("pass")
    THEN FlowFileTransformResult("success", PyStr(flowfile.content), flowfile.attributes)
    ELSE IF strategy = Chars("failure") THEN FlowFileTransformResult("failure", None, None)
    ELSE FlowFileTransformResult("original", None, None)

\* _render_all(items, template) from the i-th item on: [err, outputs, cache]
RECURSIVE render_each(_, _, _, _)
render_each(cache, xs, template, i) ==
    IF i > Len(xs) THEN [err |-> FALSE, outputs |-> <<>>, cache |-> cache]
    ELSE The({
        IF one.err THEN [err |-> TRUE, outputs |-> <<>>, cache |-> one.cache]
        ELSE The({ [rest EXCEPT !.outputs = IF rest.err THEN <<>> ELSE <<one.text>> \o rest.outputs]
                   : rest \in {render_each(one.cache, xs, template, i + 1)} })
        : one \in {render(cache, template, xs[i])} })

render_all(cache, items, template) ==
    IF items.t = "list" THEN render_each(cache, items.xs, template, 1)
    ELSE render_each(cache, <<items>>, template, 1)

\* SQLGeneratorProcessorV5.transform on a cache: the outcome and the cache afterwards
transform_v5(cache, props, flowfile) ==
    The({
        IF ~data.ok
        THEN [outcome |-> Outcome(handle_error_v5(flowfile, Lower(props.error_handling.s)), TRUE, <<>>),
              cache |-> cache]
        ELSE The({
            IF split.err
            THEN [outcome |-> Outcome(handle_error_v5(flowfile, Lower(props.error_handling.s)), TRUE, <<>>),
                  cache |-> split.cache]
            ELSE The({
                IF first.err
                THEN [outcome |-> Outcome(handle_error_v5(flowfile, Lower(props.error_handling.s)),
                                          TRUE, <<>>),
                      cache |-> first.cache]
                ELSE The({
                    IF second.err
                    THEN [outcome |-> Outcome(handle_error_v5(flowfile, Lower(props.error_handling.s)),
                                              TRUE, first.outputs),
                          cache |-> second.cache]
                    ELSE [outcome |-> Outcome(FlowFileTransformResult("success", flowfile.attributes,
                                                PyStr(Join(Chars("; "),
                                                           first.outputs \o second.outputs))),
                                              FALSE, first.outputs \o second.outputs),
                          cache |-> second.cache]
                    : second \in
                        {IF split.matched # <<>> /\ ~Unset(props.cond_template)
                         THEN render_all(first.cache, PyList(split.matched), props.cond_template.s)
                         ELSE [err |-> FALSE, outputs |-> <<>>, cache |-> first.cache]} })
                : first \in
                    {IF Truthy(split.unmatched) /\ ~Unset(props.template)
                     THEN render_all(split.cache, split.unmatched, props.template.s)
                     ELSE [err |-> FALSE, outputs |-> <<>>, cache |-> split.cache]} })
            : split \in {split_data(cache, data.v, props.cond_key, props.cond_val)} })
        : data \in {json_loads(flowfile.content)} })


(***************************************************************************)
(* Specification SpecSplit: one call of the conditional split of V5, V3 or *)
(* V2 on a batch of records, a Conditional Key and a Conditional Value.    *)
(***************************************************************************)
MaxBatch == 3

SplitRecords ==
    { PyObj(F_status :> PyStr(Chars("x"))),
      PyObj(F_status :> PyStr(Chars("y"))),
      PyObj(F_status :> PyInt(1)),
      PyObj(F_a :> PyObj(F_status :> PyStr(Chars("x")))) }

SplitKeys ==
    { None, PyStr(<<>>), PyStr(Chars("$.status")), PyStr(Chars("status")),
      PyStr(Chars("$[*].status")), PyStr(Chars("$.a.status")), PyStr(Chars("$.status.")) }

SplitValues == { None, PyStr(<<>>), PyStr(Chars("x")), PyStr(Chars("1")) }

NoOutput == [op |-> "none"]

SplitInit ==
    /\ pc = "split_ready"
    /\ inp \in [data : {PyList(b) : b \in SeqsUpTo(SplitRecords, MaxBatch)},
                key : SplitKeys, value : SplitValues]
    /\ out = NoOutput
    /\ jsonpath_cache = EmptyCache
    /\ parse_calls = <<>>
    /\ thr = <<>>

SplitOutput(op, r) ==
    [op |-> op, err |-> r.err, matched |-> r.matched, unmatched |-> r.unmatched]

SplitV5 ==
    /\ pc = "split_ready"
    /\ \E r \in {split_data(jsonpath_cache, inp.data, inp.key, inp.value)} :
           /\ out' = SplitOutput("V5", r)
           /\ jsonpath_cache' = r.cache
    /\ pc' = "split_done"
    /\ UNCHANGED <<inp, parse_calls, thr>>

\* Conditional Value of V3 and V2 has the default value '', so it is never None
SplitV3 ==
    /\ pc = "split_ready"
    /\ inp.value # None
    /\ out' = SplitOutput("V3", split_json_v3(inp.data, inp.key, inp.value))
    /\ pc' = "split_done"
    /\ UNCHANGED <<inp, jsonpath_cache, parse_calls, thr>>

SplitV2 ==
    /\ pc = "split_ready"
    /\ inp.value # None
    /\ out' = SplitOutput("V2", split_json_v2(inp.data, inp.key, inp.value))
    /\ pc' = "split_done"
    /\ UNCHANGED <<inp, jsonpath_cache, parse_calls, thr>>

SplitNext == SplitV5 \/ SplitV3 \/ SplitV2

SpecSplit == SplitInit /\ [][SplitNext]_vars

\* the record's Conditional Key, read as the path it is documented to be, resolves to the target
KeyResolvesTo(rec, key, value) ==
    /\ ~NoKey(key)
    /\ value # None
    /\ \E path \in {JsonPathParse(key.s)} :
           path.ok /\ AnyEquals(JsonPathFind(path, rec).vals, value)

SplitDone == pc = "split_done" /\ ~out.err

\* the two buckets a stable partition of the batch by KeyResolvesTo gives
ResolvingAt == [i \in 1..Len(inp.data.xs) |-> KeyResolvesTo(inp.data.xs[i], inp.key, inp.value)]
IsStablePartition ==
    \E resolving \in {ResolvingAt} :
        /\ out.matched = Filter(inp.data.xs, resolving)
        /\ out.unmatched = PyList(Filter(inp.data.xs, [i \in DOMAIN resolving |-> ~resolving[i]]))

\* C1: whenever a split (V5 _split_data, V3 or V2 split_json) returns, the matching bucket
\* holds exactly the records whose Conditional Key resolves to the Conditional Value, the
\* non-matching bucket holds all the others, and both keep the input order.
C1_SplitIsStablePartition == SplitDone => IsStablePartition

\* the same statement for the two variants that compile the key as a path
SplitByPathIsStablePartition == (SplitDone /\ out.op \in {"V5", "V3"}) => IsStablePartition


(***************************************************************************)
(* Specification SpecCache: one SQLGeneratorProcessorV5 instance serving   *)
(* render calls one after the other; the cache outlives each call.         *)
(***************************************************************************)
MaxParseCalls == 2

CacheTemplates ==
    { Chars("${$.a}"), Chars("${$.a}-${$.b}"), Chars("${$.a}${$.a}"), Chars("${toString($.a)}"),
      Chars("${$.b, 'd'}"), Chars("${$.}"), Chars("${$.a}${$.}"), Chars("x") }

CacheContexts ==
    { PyObj(F_a :> PyStr(Chars("x"))),
      PyObj(F_a :> PyStr(Chars("y")) @@ F_b :> PyInt(1)),
      PyObj(F_b :> PyStr(Chars("x"))) }

\* parse_calls after parse() ran for each text of the sequence
RECURSIVE Counted(_, _)
Counted(calls, parsed) ==
    IF parsed = <<>> THEN calls
    ELSE Counted([q \in DOMAIN calls \cup {Head(parsed)} |->
                     (IF q \in DOMAIN calls THEN calls[q] ELSE 0)
                     + (IF q = Head(parsed) THEN 1 ELSE 0)],
                 Tail(parsed))

NoRender == [template |-> <<>>, context |-> None]

CacheInit ==
    /\ pc = "serving"
    /\ inp = NoRender
    /\ out = [err |-> FALSE, text |-> <<>>, prev |-> NoRender]
    /\ jsonpath_cache = EmptyCache
    /\ parse_calls = <<>>
    /\ thr = <<>>

\* one call _render(template, context) on the instance
Render(template, context) ==
    /\ pc = "serving"
    /\ \E r \in {render(jsonpath_cache, template, context)} :
         \E calls \in {Counted(parse_calls, r.parsed)} :
           /\ \A q \in DOMAIN calls : calls[q] <= MaxParseCalls
           /\ jsonpath_cache' = r.cache
           /\ parse_calls' = calls
           /\ out' = [err |-> r.err, text |-> r.text, prev |-> inp]
    /\ inp' = [template |-> template, context |-> context]
    /\ UNCHANGED <<pc, thr>>

CacheNext == \E template \in CacheTemplates, context \in CacheContexts : Render(template, context)

SpecCache == CacheInit /\ [][CacheNext]_vars

\* the same render on a fresh instance: the result the template and the context alone determine
FreshRender == render(EmptyCache, inp.template, inp.context)
RenderReflectsItsInputs ==
    inp # NoRender => \E fresh \in {FreshRender} : out.err = fresh.err /\ out.text = fresh.text

\* C2 as stated: parse() runs at most once for every path text, and every render's output is
\* the one its own template and context determine.
C2_ParseAtMostOncePerText ==
    /\ \A q \in DOMAIN parse_calls : parse_calls[q] <= 1
    /\ RenderReflectsItsInputs

\* C2 amended: parse() runs at most once for every path text that compiles (a text parse()
\* rejects is never cached and is parsed again by every render that reaches it), and every
\* render's output is the one its own template and context determine.
C2_ParseAtMostOncePerCompiledText ==
    /\ \A q \in DOMAIN parse_calls : JsonPathParse(q).ok => parse_calls[q] <= 1
    /\ RenderReflectsItsInputs

\* the same template rendered twice against two contexts: one parse, the second output from
\* the second context
C2_Witness ==
    /\ inp.template = Chars("${$.a}")
    /\ out.prev.template = Chars("${$.a}")
    /\ out.prev.context = PyObj(F_a :> PyStr(Chars("x")))
    /\ inp.context = PyObj(F_a :> PyStr(Chars("y")) @@ F_b :> PyInt(1))
    /\ parse_calls[Chars("$.a")] = 1
    /\ out.text = Chars("'y'")


(***************************************************************************)
(* Specification SpecThreads: worker threads of the hosting runtime inside *)
(* _get_expr of one SQLGeneratorProcessorV5 instance.  The method holds no *)
(* lock; dict.get, parse and the dict store are its three steps, and the   *)
(* interpreter may switch threads between any two of them.                 *)
(***************************************************************************)
NumThreads == 2
Threads == 1..NumThreads

ThreadPaths == { Chars("$.a"), Chars("a") }

Idle == [at |-> "idle", path |-> <<>>, expr |-> ParseError, compiled |-> {}]

ThreadsInit ==
    /\ pc = "threads"
    /\ inp = NoRender
    /\ out = NoOutput
    /\ jsonpath_cache = EmptyCache
    /\ parse_calls = <<>>
    /\ thr = [t \in Threads |-> Idle]

\* a worker enters _get_expr(path)
Call(t, path) ==
    /\ thr[t].at = "idle"
    /\ thr' = [thr EXCEPT ![t].at = "lookup", ![t].path = path, ![t].expr = ParseError]
    /\ UNCHANGED <<pc, inp, out, jsonpath_cache, parse_calls>>

\* expr = self._jsonpath_cache.get(path); if expr is None: ...
Lookup(t) ==
    /\ thr[t].at = "lookup"
    /\ thr' = IF thr[t].path \in DOMAIN jsonpath_cache
              THEN [thr EXCEPT ![t].at = "return", ![t].expr = jsonpath_cache[thr[t].path]]
              ELSE [thr EXCEPT ![t].at = "compile"]
    /\ UNCHANGED <<pc, inp, out, jsonpath_cache, parse_calls>>

\* expr = parse(path)
Compile(t) ==
    /\ thr[t].at = "compile"
    /\ thr' = [thr EXCEPT ![t].at = "insert", ![t].expr = JsonPathParse(thr[t].path),
                          ![t].compiled = @ \cup {thr[t].path}]
    /\ UNCHANGED <<pc, inp, out, jsonpath_cache, parse_calls>>

\* self._jsonpath_cache[path] = expr
Insert(t) ==
    /\ thr[t].at = "insert"
    /\ jsonpath_cache' = [q \in DOMAIN jsonpath_cache \cup {thr[t].path} |->
                             IF q = thr[t].path THEN thr[t].expr ELSE jsonpath_cache[q]]
    /\ thr' = [thr EXCEPT ![t].at = "return"]
    /\ UNCHANGED <<pc, inp, out, parse_calls>>

\* return expr
Return(t) ==
    /\ thr[t].at = "return"
    /\ out' = [op |-> "get_expr", thread |-> t, path |-> thr[t].path, expr |-> thr[t].expr]
    /\ thr' = [thr EXCEPT ![t].at = "idle"]
    /\ UNCHANGED <<pc, inp, jsonpath_cache, parse_calls>>

ThreadsNext ==
    \E t \in Threads :
        \/ \E path \in ThreadPaths : Call(t, path)
        \/ Lookup(t)
        \/ Compile(t)
        \/ Insert(t)
        \/ Return(t)

SpecThreads == ThreadsInit /\ [][ThreadsNext]_vars

\* every call returns the expression of its own path text, and the cache binds every text to
\* the expression compiled from it
ConcurrentCacheIsCorrect ==
    /\ out # NoOutput => out.expr = JsonPathParse(out.path)
    /\ \A q \in DOMAIN jsonpath_cache : jsonpath_cache[q] = JsonPathParse(q)

\* no path text is compiled by two threads
NoDuplicateCompilation ==
    \A t1, t2 \in Threads : t1 # t2 => thr[t1].compiled \cap thr[t2].compiled = {}

\* C3: under any interleaving of the threads' lookup, compile and insert steps, every call
\* returns the expression compiled from its own path text, the cache never binds a text to
\* the expression of another text, and no path text is compiled by two threads.
C3_ConcurrentCacheNoDuplicateCompile == ConcurrentCacheIsCorrect /\ NoDuplicateCompilation

(***************************************************************************)
(* Specification SpecFormat: one string value of the data reaches one      *)
(* substitution point of a renderer: the replacement text V5 computes for  *)
(* a placeholder, the text the replacer of V2 returns, and the replacement *)
(* text generate_sql of V3 computes.                                       *)
(***************************************************************************)
MaxValueLen == 3

ValueChars == {"a", "'", "7"}
StringValues == SeqsUpTo(ValueChars, MaxValueLen)

\* the record that carries the value, and the batch of V2 and V3 that holds the record
NameRecord(value) == PyObj(F_name :> PyStr(value))

\* placeholder texts whose result is the value itself, its JSON encoding, or its integer value
PlaceholdersV5 ==
    { [text |-> Chars("$.name"), kind |-> "string"],
      [text |-> Chars("toString($.name)"), kind |-> "string"],
      [text |-> Chars("upper($.name)"), kind |-> "string"],
      [text |-> Chars("toJson($.name)"), kind |-> "json"],
      [text |-> Chars("toInt($.name)"), kind |-> "number"] }
PlaceholdersV2 ==
    { [text |-> Chars("$[0].name"), kind |-> "string"],
      [text |-> Chars("$[*].name"), kind |-> "string"],
      [text |-> Chars("toStr($[0].name)"), kind |-> "string"],
      [text |-> Chars("append($[0].name, '')"), kind |-> "string"] }
PlaceholdersV3 ==
    { [text |-> Chars("$.name"), kind |-> "string", aggregated |-> FALSE],
      [text |-> Chars("$[*].name"), kind |-> "string", aggregated |-> TRUE] }

FormatInit ==
    /\ pc = "format"
    /\ \E value \in StringValues : inp = [value |-> value]
    /\ out = NoOutput
    /\ jsonpath_cache = EmptyCache
    /\ parse_calls = <<>>
    /\ thr = <<>>

Emitted(version, kind, text) == [op |-> "emit", version |-> version, kind |-> kind, text |-> text]

\* V5: _eval_placeholder on the record
EmitV5 ==
    /\ pc = "format" /\ out = NoOutput
    /\ \E p \in PlaceholdersV5 :
        \E r \in {eval_placeholder(EmptyCache, p.text, NameRecord(inp.value))} :
            ~r.err /\ out' = Emitted("V5", p.kind, r.text)
    /\ UNCHANGED <<pc, inp, jsonpath_cache, parse_calls, thr>>

\* V2: the replacer of replace_placeholders on the batch
EmitV2 ==
    /\ pc = "format" /\ out = NoOutput
    /\ \E p \in PlaceholdersV2 :
        \E r \in {replacer(p.text, PyList(<<NameRecord(inp.value)>>))} :
            ~r.err /\ out' = Emitted("V2", p.kind, r.text)
    /\ UNCHANGED <<pc, inp, jsonpath_cache, parse_calls, thr>>

\* V3: the replacement generate_sql computes, on the batch when a path holds [*] and on the
\* record otherwise
EmitV3 ==
    /\ pc = "format" /\ out = NoOutput
    /\ \E p \in PlaceholdersV3 :
        out' = Emitted("V3", p.kind,
                       IF p.aggregated
                       THEN AggregatedText(evaluate_jsonpath(PyList(<<NameRecord(inp.value)>>), p.text))
                       ELSE FirstText(evaluate_jsonpath(NameRecord(inp.value), p.text)))
    /\ UNCHANGED <<pc, inp, jsonpath_cache, parse_calls, thr>>

FormatNext == EmitV5 \/ EmitV2 \/ EmitV3

SpecFormat == FormatInit /\ [][FormatNext]_vars

\* every single quote of s is one of a pair
RECURSIVE QuotesDoubled(_)
QuotesDoubled(s) ==
    IF s = <<>> THEN TRUE
    ELSE IF Head(s) = "'" THEN Len(s) >= 2 /\ s[2] = "'" /\ QuotesDoubled(Tail(Tail(s)))
    ELSE QuotesDoubled(Tail(s))

\* s is a single-quoted SQL literal: wrapped in single quotes, the quotes inside doubled
SqlQuoted(s) ==
    Len(s) >= 2 /\ Head(s) = "'" /\ s[Len(s)] = "'" /\ QuotesDoubled(SubSeq(s, 2, Len(s) - 1))

SqlSafe(kind, value, text) ==
    CASE kind = "string" -> text = Quoted(DoubleQuotes(value))
      [] kind = "json"   -> SqlQuoted(text)
      [] kind = "number" -> ~Contains(text, "'")

\* C4: at every substitution point of V5, V2 and V3 a string value of the data is emitted
\* wrapped in single quotes with every embedded single quote doubled (its JSON encoding
\* likewise, its integer value without any quote), so no undoubled quote reaches the output.
C4_StringsQuotedWithDoubledQuotes ==
    out.op = "emit" => SqlSafe(out.kind, inp.value, out.text)

\* the part of C4 the code keeps: the substitution points of V5
V5StringsQuotedWithDoubledQuotes ==
    (out.op = "emit" /\ out.version = "V5") => SqlSafe(out.kind, inp.value, out.text)

(***************************************************************************)
(* Specification SpecLenient: one transform of SQLGeneratorProcessor       *)
(* 1.0.1, 1.0.2 or 1.0.4 on a FlowFile and a template of placeholders.     *)
(***************************************************************************)
MaxPlaceholders == 2

\* expressions that resolve on some content, that match nothing, and that are malformed
LenientExpressions ==
    { Chars("$.a"), Chars("$.s"), Chars("$[*].a"), Chars("$.zz"), Chars("$.") }

\* the placeholders ${e} of the expressions, separated by ', '
TemplateOf(exprs) ==
    Join(Chars(", "), [k \in 1..Len(exprs) |-> Chars("${") \o exprs[k] \o <<"}">>])

ObjectContent == Chars("{\"a\": 1, \"s\": \"x\"}")
ArrayContent == Chars("[{\"a\": 1}, {\"a\": 2}]")
BrokenContent == Chars("{\"a\": ")
ScalarContent == Chars("5")

LenientContents ==
    { [text |-> ObjectContent, valid |-> TRUE],
      [text |-> ArrayContent, valid |-> TRUE],
      [text |-> BrokenContent, valid |-> FALSE] }

FlowFileAttributes == PyObj(Chars("filename") :> PyStr(Chars("f")))
FlowFile(content) == [content |-> content, attributes |-> FlowFileAttributes]

\* SQL Destination of 1.0.2 (allowed_values) and Output Destination of 1.0.4 (its validator)
DestinationsV102 == { PyStr(Chars("attribute")), PyStr(Chars("content")) }
DestinationsV104 == { PyStr(Chars("flowfile-attribute")), PyStr(Chars("flowfile-content")) }
AttributeNames == { None, PyStr(Chars("q")) }

LenientInit ==
    /\ pc = "lenient"
    /\ \E exprs \in SeqsUpTo(LenientExpressions, MaxPlaceholders), content \in LenientContents :
        inp = [exprs |-> exprs, template |-> TemplateOf(exprs),
               content |-> content.text, valid |-> content.valid]
    /\ out = NoOutput
    /\ jsonpath_cache = EmptyCache
    /\ parse_calls = <<>>
    /\ thr = <<>>

Transformed(version, outcome) == [op |-> "transform", version |-> version, outcome |-> outcome]

TransformV101 ==
    /\ pc = "lenient" /\ out = NoOutput
    /\ out' = Transformed("1.0.1",
                          transform_v1_0_1([template |-> PyStr(inp.template)], FlowFile(inp.content)))
    /\ UNCHANGED <<pc, inp, jsonpath_cache, parse_calls, thr>>

TransformV102 ==
    /\ pc = "lenient" /\ out = NoOutput
    /\ \E destination \in DestinationsV102 :
        out' = Transformed("1.0.2",
                           transform_v1_0_2([template |-> PyStr(inp.template),
                                             destination |-> destination],
                                            FlowFile(inp.content)))
    /\ UNCHANGED <<pc, inp, jsonpath_cache, parse_calls, thr>>

TransformV104 ==
    /\ pc = "lenient" /\ out = NoOutput
    /\ \E destination \in DestinationsV104, attribute_name \in AttributeNames :
        out' = Transformed("1.0.4",
                           transform_v1_0_4([template |-> PyStr(inp.template),
                                             destination |-> destination,
                                             attribute_name |-> attribute_name],
                                            FlowFile(inp.content)))
    /\ UNCHANGED <<pc, inp, jsonpath_cache, parse_calls, thr>>

LenientNext == TransformV101 \/ TransformV102 \/ TransformV104

SpecLenient == LenientInit /\ [][LenientNext]_vars

\* the generated SQL of a result: its contents, or the value of the attribute that carries it
GeneratedText(result) ==
    IF result.contents # None THEN result.contents.s
    ELSE IF result.attributes # None /\ Cardinality(DOMAIN result.attributes.f) = 1
        THEN result.attributes.f[CHOOSE k \in DOMAIN result.attributes.f : TRUE].s
    ELSE <<"?">>

\* C8: in 1.0.1, 1.0.2 and 1.0.4, on a content that is valid JSON, every placeholder of the
\* template is evaluated, in order; a placeholder whose evaluation raises (no match,
\* malformed path) is replaced by the empty string and the others by their values, and
\* transform returns 'success' with the SQL so generated.
C8_LenientRecovery ==
    (out.op = "transform" /\ inp.valid /\ inp.exprs # <<>>) =>
        /\ ~out.outcome.result.raised
        /\ out.outcome.result.relationship = "success"
        /\ Len(out.outcome.log) = Len(inp.exprs)
        /\ \A k \in 1..Len(inp.exprs) :
              /\ out.outcome.log[k].expr = inp.exprs[k]
              /\ out.outcome.log[k].raised => out.outcome.log[k].text = <<>>
        /\ GeneratedText(out.outcome.result)
              = Join(Chars(", "), [k \in 1..Len(inp.exprs) |-> out.outcome.log[k].text])

\* the first placeholder matches nothing, the second resolves: the SQL is '' and '1' around
\* the separator, returned with 'success'
C8_Witness ==
    /\ out.op = "transform"
    /\ inp.exprs = <<Chars("$.zz"), Chars("$.a")>>
    /\ inp.content = ObjectContent
    /\ out.outcome.log[1].raised /\ ~out.outcome.log[2].raised
    /\ out.outcome.result.relationship = "success"
    /\ GeneratedText(out.outcome.result) = Chars(", 1")

(***************************************************************************)
(* Specification SpecRender: one render of a template on one record, by    *)
(* _render of V5, replace_placeholders of V2 and generate_sql of V3 (V2    *)
(* and V3 on the batch holding the record).                                *)
(***************************************************************************)
MaxTemplateLen == 3

TemplateChars == {"$", "{", "}", "a", ";"}

\* every text of up to MaxTemplateLen characters, and templates with placeholders
RenderTemplates ==
    SeqsUpTo(TemplateChars, MaxTemplateLen)
        \cup { Chars("${$.a}"), Chars("a ${$.zz} $"), Chars("${$[0].a}{}") }

RenderContexts == { PyObj(F_a :> PyInt(1)), PyObj(F_a :> PyStr(Chars("x")) @@ F_b :> None) }

RenderInit ==
    /\ pc = "render"
    /\ \E template \in RenderTemplates, context \in RenderContexts :
        inp = [template |-> template, context |-> context]
    /\ out = NoOutput
    /\ jsonpath_cache = EmptyCache
    /\ parse_calls = <<>>
    /\ thr = <<>>

Rendered(version, err, statements) ==
    [op |-> "render", version |-> version, err |-> err, statements |-> statements]

RenderV5 ==
    /\ pc = "render" /\ out = NoOutput
    /\ \E r \in {render(EmptyCache, inp.template, inp.context)} :
        out' = Rendered("V5", r.err, IF r.err THEN <<>> ELSE <<r.text>>)
    /\ UNCHANGED <<pc, inp, jsonpath_cache, parse_calls, thr>>

RenderV2 ==
    /\ pc = "render" /\ out = NoOutput
    /\ \E r \in {replace_placeholders(inp.template, PyList(<<inp.context>>))} :
        out' = Rendered("V2", r.err, IF r.err THEN <<>> ELSE <<r.text>>)
    /\ UNCHANGED <<pc, inp, jsonpath_cache, parse_calls, thr>>

RenderV3 ==
    /\ pc = "render" /\ out = NoOutput
    /\ out' = Rendered("V3", FALSE, generate_sql(<<inp.context>>, inp.template))
    /\ UNCHANGED <<pc, inp, jsonpath_cache, parse_calls, thr>>

RenderNext == RenderV5 \/ RenderV2 \/ RenderV3

SpecRender == RenderInit /\ [][RenderNext]_vars

\* the text holds '${' and, somewhere after it, '}'
HasPlaceholder(s) ==
    \E i \in 1..Len(s) : \E j \in 1..Len(s) :
        s[i] = "$" /\ i + 1 < j /\ s[i + 1] = "{" /\ s[j] = "}"

\* C5: for a template without any ${...} placeholder, the render of V5, of V2, and each
\* statement generate_sql of V3 produces, is the template unchanged.
C5_PlaceholderFreeIsIdentity ==
    (out.op = "render" /\ ~HasPlaceholder(inp.template)) =>
        (~out.err /\ out.statements = <<inp.template>>)

\* the part of C5 the code keeps: _render of V5 and replace_placeholders of V2
PlaceholderFreeIsIdentityV5V2 ==
    (out.op = "render" /\ out.version \in {"V5", "V2"} /\ ~HasPlaceholder(inp.template)) =>
        (~out.err /\ out.statements = <<inp.template>>)

(***************************************************************************)
(* Specification SpecExtract: one placeholder ${path} or ${path, default}  *)
(* evaluated by V5 on one context.                                         *)
(***************************************************************************)
ExtractContexts ==
    { PyObj(F_a :> PyInt(1) @@ F_b :> None),
      PyList(<<PyObj(F_a :> PyInt(1)), PyObj(F_a :> PyStr(Chars("x"))), PyObj(F_b :> PyInt(2))>>),
      PyList(<<PyObj(F_a :> PyInt(7))>>) }

ExtractPaths ==
    { Chars("$"), Chars("$.a"), Chars("a"), Chars("$.b"), Chars("$.zz"), Chars("$.a.zz"),
      Chars("$[*].a"), Chars("$[1].a"), Chars("$.") }

\* the default texts written after the comma, with the values they stand for
ExtractDefaults ==
    { [given |-> FALSE, text |-> <<>>, value |-> None],
      [given |-> TRUE, text |-> Chars("'d'"), value |-> PyStr(Chars("d"))],
      [given |-> TRUE, text |-> Chars("5"), value |-> PyInt(5)],
      [given |-> TRUE, text |-> Chars("NULL"), value |-> None],
      [given |-> TRUE, text |-> Chars("dflt"), value |-> PyStr(Chars("dflt"))] }

ExtractInit ==
    /\ pc = "extract"
    /\ \E context \in ExtractContexts, path \in ExtractPaths, default \in ExtractDefaults :
        inp = [context |-> context, path |-> path, default |-> default]
    /\ out = NoOutput
    /\ jsonpath_cache = EmptyCache
    /\ parse_calls = <<>>
    /\ thr = <<>>

\* the text between the braces
PlaceholderText(path, default) ==
    IF default.given THEN path \o Chars(", ") \o default.text ELSE path

\* _eval_placeholder on the context; the state keeps what _extract returned, what the
\* compiled path matched, and the text put for the placeholder
EvalPlaceholder ==
    /\ pc = "extract" /\ out = NoOutput
    /\ \E compiled \in {JsonPathParse(inp.path)} :
       \E found \in {JsonPathFind(compiled, inp.context)} :
       \E got \in {extract(EmptyCache, inp.context, inp.path,
                           IF inp.default.given THEN parse_default(inp.default.text) ELSE None)} :
       \E r \in {eval_placeholder(EmptyCache, PlaceholderText(inp.path, inp.default), inp.context)} :
            out' = [op |-> "extract",
                    resolved |-> compiled.ok /\ ~found.err,
                    matches |-> found.vals,
                    raised |-> got.err \/ r.err,
                    value |-> got.value,
                    text |-> r.text]
    /\ UNCHANGED <<pc, inp, jsonpath_cache, parse_calls, thr>>

ExtractNext == EvalPlaceholder

SpecExtract == ExtractInit /\ [][ExtractNext]_vars

\* C6: for a path that resolves on the context, _extract yields the default when there is
\* no match and a default was given, None (rendered as the text null) when there is no match
\* and no default, the matched value when there is one match, and the list of the matched
\* values in order when there are more; nothing is raised.
C6_ExtractByMatchCount ==
    (out.op = "extract" /\ out.resolved) =>
        /\ ~out.raised
        /\ Len(out.matches) = 0 => out.value = inp.default.value
        /\ (Len(out.matches) = 0 /\ ~inp.default.given) => out.text = Chars("null")
        /\ Len(out.matches) = 1 => out.value = out.matches[1]
        /\ Len(out.matches) > 1 => out.value = PyList(out.matches)

\* a missing field with the default 'd': the default is the value, and its text is put
C6_Witness ==
    /\ out.op = "extract"
    /\ inp.path = Chars("$.zz") /\ inp.default.text = Chars("'d'")
    /\ out.matches = <<>>
    /\ out.value = PyStr(Chars("d"))
    /\ out.text = Chars("'d'")

(***************************************************************************)
(* Specification SpecStrict: one transform of SQLGeneratorProcessor 1.0.6  *)
(* or 1.0.7, V2, V3 or V5 on an object content and a template of           *)
(* placeholders, each placeholder of a known kind: one that evaluates, a   *)
(* malformed expression, a path the content does not resolve, a call of an *)
(* unknown function, a conversion that fails.                              *)
(***************************************************************************)
StrictVersions == {"1.0.6", "1.0.7", "V2", "V3", "V5"}

\* on the content {"a": 1, "s": "x"} (V2 sees it as the one-element batch)
StrictExpressions(version) ==
    IF version = "V5"
    THEN { [text |-> Chars("$.a"), kind |-> "ok"],
           [text |-> Chars("$.zz"), kind |-> "unresolvable"],
           [text |-> Chars("$."), kind |-> "malformed"],
           [text |-> Chars("nope($.a)"), kind |-> "unknown_function"],
           [text |-> Chars("toInt($.s)"), kind |-> "conversion"] }
    ELSE IF version = "V2"
    THEN { [text |-> Chars("$[0].a"), kind |-> "ok"],
           [text |-> Chars("$[0].zz"), kind |-> "unresolvable"],
           [text |-> Chars("$["), kind |-> "malformed"],
           [text |-> Chars("nope($[0].a)"), kind |-> "unknown_function"],
           [text |-> Chars("toInt($[0].s)"), kind |-> "conversion"] }
    ELSE { [text |-> Chars("$.a"), kind |-> "ok"],
           [text |-> Chars("$.zz"), kind |-> "unresolvable"],
           [text |-> Chars("$."), kind |-> "malformed"] }

ErrorHandlings ==
    { [text |-> Chars("pass"), policy |-> "pass"],
      [text |-> Chars("PASS"), policy |-> "pass"],
      [text |-> Chars("failure"), policy |-> "failure"],
      [text |-> Chars("Failure"), policy |-> "failure"],
      [text |-> Chars("original"), policy |-> "original"],
      [text |-> Chars("retry"), policy |-> "original"] }

StrictInit ==
    /\ pc = "strict"
    /\ \E version \in StrictVersions, error_handling \in ErrorHandlings :
       \E exprs \in SeqsUpTo(StrictExpressions(version), MaxPlaceholders) :
        inp = [version |-> version, exprs |-> exprs,
               template |-> TemplateOf([k \in 1..Len(exprs) |-> exprs[k].text]),
               content |-> ObjectContent, error_handling |-> error_handling]
    /\ out = NoOutput
    /\ jsonpath_cache = EmptyCache
    /\ parse_calls = <<>>
    /\ thr = <<>>

\* the properties of 1.0.6 and 1.0.7 with no conditional template
ConditionalProps(template, error_handling, store_in_content) ==
    [template |-> PyStr(template), store_in_content |-> PyStr(store_in_content),
     attribute_name |-> None, cond_key |-> None, cond_val |-> None, cond_template |-> None,
     error_handling |-> PyStr(error_handling)]

\* the properties of V2, V3 and V5
SplitProps(template, cond_key, cond_val, cond_template, error_handling) ==
    [template |-> PyStr(template), cond_key |-> cond_key, cond_val |-> cond_val,
     cond_template |-> cond_template, error_handling |-> PyStr(error_handling)]

StrictV106 ==
    /\ pc = "strict" /\ out = NoOutput /\ inp.version = "1.0.6"
    /\ \E store_in_content \in {Chars("true"), Chars("false")} :
        out' = Transformed("1.0.6",
                   transform_v1_0_6(ConditionalProps(inp.template, inp.error_handling.text,
                                                     store_in_content),
                                    FlowFile(inp.content)))
    /\ UNCHANGED <<pc, inp, jsonpath_cache, parse_calls, thr>>

StrictV107 ==
    /\ pc = "strict" /\ out = NoOutput /\ inp.version = "1.0.7"
    /\ \E store_in_content \in {Chars("true"), Chars("false")} :
        out' = Transformed("1.0.7",
                   transform_v1_0_7(ConditionalProps(inp.template, inp.error_handling.text,
                                                     store_in_content),
                                    FlowFile(inp.content)))
    /\ UNCHANGED <<pc, inp, jsonpath_cache, parse_calls, thr>>

StrictV2 ==
    /\ pc = "strict" /\ out = NoOutput /\ inp.version = "V2"
    /\ out' = Transformed("V2",
                  transform_v2(SplitProps(inp.template, None, None, None, inp.error_handling.text),
                               FlowFile(inp.content)))
    /\ UNCHANGED <<pc, inp, jsonpath_cache, parse_calls, thr>>

StrictV3 ==
    /\ pc = "strict" /\ out = NoOutput /\ inp.version = "V3"
    /\ out' = Transformed("V3",
                  transform_v3(SplitProps(inp.template, None, None, None, inp.error_handling.text),
                               FlowFile(inp.content)))
    /\ UNCHANGED <<pc, inp, jsonpath_cache, parse_calls, thr>>

StrictV5 ==
    /\ pc = "strict" /\ out = NoOutput /\ inp.version = "V5"
    /\ \E r \in {transform_v5(jsonpath_cache,
                              SplitProps(inp.template, None, None, None, inp.error_handling.text),
                              FlowFile(inp.content))} :
        /\ out' = Transformed("V5", r.outcome)
        /\ jsonpath_cache' = r.cache
    /\ UNCHANGED <<pc, inp, parse_calls, thr>>

StrictNext == StrictV106 \/ StrictV107 \/ StrictV2 \/ StrictV3 \/ StrictV5

SpecStrict == StrictInit /\ [][StrictNext]_vars

\* the position of the first placeholder that is not of kind ok, 0 when there is none
FirstFailing(exprs) ==
    IF \E k \in 1..Len(exprs) : exprs[k].kind # "ok"
    THEN CHOOSE k \in 1..Len(exprs) :
            exprs[k].kind # "ok" /\ \A j \in 1..(k - 1) : exprs[j].kind = "ok"
    ELSE 0

\* the render stopped at the first failing placeholder and the error handler made the result
AbortedAtFirstFailure ==
    /\ out.outcome.handled
    /\ out.version \in {"1.0.6", "1.0.7"} => Len(out.outcome.log) = FirstFailing(inp.exprs)
    /\ out.version \in {"V2", "V3", "V5"} => out.outcome.log = <<>>

\* C9: in 1.0.6, 1.0.7, V2, V3 and V5 the first placeholder whose evaluation fails (malformed
\* expression, unresolvable path, unknown function, failed conversion) aborts the render: no
\* later placeholder is evaluated, no statement is returned with 'success', and the result
\* is the error handler's.
C9_FirstFailureAbortsRender ==
    (out.op = "transform" /\ FirstFailing(inp.exprs) > 0) => AbortedAtFirstFailure

\* the failures the code does abort on: every kind in 1.0.6 and 1.0.7; in V2 all but the
\* unresolvable path; in V5 the malformed path; in V3 none
RaisesIn(version, kind) ==
    \/ version \in {"1.0.6", "1.0.7"} /\ kind # "ok"
    \/ version = "V2" /\ kind \in {"malformed", "unknown_function", "conversion"}
    \/ version = "V5" /\ kind = "malformed"

FailuresTheCodeAbortsOn ==
    (out.op = "transform" /\ FirstFailing(inp.exprs) > 0
        /\ \A k \in 1..Len(inp.exprs) :
              inp.exprs[k].kind = "ok" \/ RaisesIn(inp.version, inp.exprs[k].kind))
    => AbortedAtFirstFailure

(***************************************************************************)
(* Specification SpecTransform: one transform of V2, V3 or V5 on a content *)
(* of a known shape (an object, an array, a scalar, not JSON at all), with *)
(* or without a conditional template, under each Error Handling value.     *)
(***************************************************************************)
EmptyContent == <<>>
NullContent == Chars("null")
StringContent == Chars("\"s\"")

TransformContents ==
    { [text |-> ObjectContent, shape |-> "object"],
      [text |-> ArrayContent, shape |-> "array"],
      [text |-> ScalarContent, shape |-> "scalar"],
      [text |-> StringContent, shape |-> "scalar"],
      [text |-> NullContent, shape |-> "scalar"],
      [text |-> BrokenContent, shape |-> "invalid"],
      [text |-> EmptyContent, shape |-> "invalid"] }

TransformTemplates ==
    { Chars("SELECT 1"), Chars("SELECT ${$}"), Chars("SELECT ${$.a}"), Chars("SELECT ${$.}") }

\* no conditional template; one whose key is a malformed path; one that matches some records
TransformConditions ==
    { [key |-> None, val |-> None, template |-> None],
      [key |-> PyStr(Chars("$.")), val |-> PyStr(Chars("1")), template |-> PyStr(Chars("C"))],
      [key |-> PyStr(Chars("$.a")), val |-> PyStr(Chars("1")),
       template |-> PyStr(Chars("C ${$.a}"))] }

TransformInit ==
    /\ pc = "transform"
    /\ \E content \in TransformContents, template \in TransformTemplates,
          cond \in TransformConditions, error_handling \in ErrorHandlings :
        inp = [content |-> content, template |-> template, cond |-> cond,
               error_handling |-> error_handling]
    /\ out = NoOutput
    /\ jsonpath_cache = EmptyCache
    /\ parse_calls = <<>>
    /\ thr = <<>>

TransformProps ==
    SplitProps(inp.template, inp.cond.key, inp.cond.val, inp.cond.template,
               inp.error_handling.text)

TransformV2 ==
    /\ pc = "transform" /\ out = NoOutput
    /\ out' = Transformed("V2", transform_v2(TransformProps, FlowFile(inp.content.text)))
    /\ UNCHANGED <<pc, inp, jsonpath_cache, parse_calls, thr>>

TransformV3 ==
    /\ pc = "transform" /\ out = NoOutput
    /\ out' = Transformed("V3", transform_v3(TransformProps, FlowFile(inp.content.text)))
    /\ UNCHANGED <<pc, inp, jsonpath_cache, parse_calls, thr>>

TransformV5 ==
    /\ pc = "transform" /\ out = NoOutput
    /\ \E r \in {transform_v5(jsonpath_cache, TransformProps, FlowFile(inp.content.text))} :
        /\ out' = Transformed("V5", r.outcome)
        /\ jsonpath_cache' = r.cache
    /\ UNCHANGED <<pc, inp, parse_calls, thr>>

TransformNext == TransformV2 \/ TransformV3 \/ TransformV5

SpecTransform == TransformInit /\ [][TransformNext]_vars

BadInput == inp.content.shape \in {"invalid", "scalar"}

\* C7: content that is not valid JSON, or that is valid JSON but neither an object nor an
\* array, is an InputFormatError: the transform goes to the error handler and renders nothing.
C7_InputFormatErrorIsFatal ==
    (out.op = "transform" /\ BadInput) => (out.outcome.handled /\ out.outcome.log = <<>>)

\* what of C7 the code does: V2 and V3 reject both kinds of bad input, V5 only invalid JSON
InputFormatErrorsTheCodeRejects ==
    (out.op = "transform" /\ BadInput
        /\ (out.version \in {"V2", "V3"} \/ inp.content.shape = "invalid"))
    => (out.outcome.handled /\ out.outcome.log = <<>>)

\* C10: in V5, an error while reading, splitting or rendering never escapes transform; the
\* Error Handling value, compared without regard to case, picks the one result: 'pass' gives
\* 'success' with the original content and the original attributes, 'failure' gives
\* 'failure', any other value gives 'original'.
C10_V5ErrorHandlingPolicy ==
    (out.op = "transform" /\ out.version = "V5" /\ out.outcome.handled) =>
        /\ out.outcome.result # Raised
        /\ inp.error_handling.policy = "pass" =>
              /\ out.outcome.result.relationship = "success"
              /\ out.outcome.result.contents = PyStr(inp.content.text)
              /\ out.outcome.result.attributes = FlowFileAttributes
        /\ inp.error_handling.policy = "failure" =>
              out.outcome.result.relationship = "failure"
        /\ inp.error_handling.policy = "original" =>
              out.outcome.result.relationship = "original"

\* what of C10 the code does: the relationship follows the policy and nothing is raised
V5ErrorHandlingPicksRelationship ==
    (out.op = "transform" /\ out.version = "V5" /\ out.outcome.handled) =>
        /\ out.outcome.result # Raised
        /\ out.outcome.result.relationship =
              (IF inp.error_handling.policy = "pass" THEN "success"
               ELSE inp.error_handling.policy)

(***************************************************************************)
(* Specification SpecAppend: ${append($[*].id, "suffix")} rendered on a    *)
(* sequence of records that each have the field id, by replace_placeholders *)
(* of V2 and by _render of V5.                                             *)
(***************************************************************************)
\* the values of the field, each with its text
AppendIds ==
    { [v |-> PyInt(1), text |-> Chars("1")], [v |-> PyInt(2), text |-> Chars("2")],
      [v |-> PyInt(3), text |-> Chars("3")], [v |-> PyStr(Chars("a")), text |-> Chars("a")] }

AppendSuffixes == { <<>>, Chars("x") }

AppendTemplate(suffix) == Chars("${append($[*].id, \"") \o suffix \o Chars("\")}")

AppendInit ==
    /\ pc = "append"
    /\ \E ids \in SeqsUpTo(AppendIds, MaxBatch), suffix \in AppendSuffixes :
        inp = [ids |-> ids, suffix |-> suffix, template |-> AppendTemplate(suffix),
               records |-> PyList([k \in 1..Len(ids) |-> PyObj(F_id :> ids[k].v)])]
    /\ out = NoOutput
    /\ jsonpath_cache = EmptyCache
    /\ parse_calls = <<>>
    /\ thr = <<>>

AppendV2 ==
    /\ pc = "append" /\ out = NoOutput
    /\ \E r \in {replace_placeholders(inp.template, inp.records)} :
        out' = Rendered("V2", r.err, IF r.err THEN <<>> ELSE <<r.text>>)
    /\ UNCHANGED <<pc, inp, jsonpath_cache, parse_calls, thr>>

AppendV5 ==
    /\ pc = "append" /\ out = NoOutput
    /\ \E r \in {render(EmptyCache, inp.template, inp.records)} :
        out' = Rendered("V5", r.err, IF r.err THEN <<>> ELSE <<r.text>>)
    /\ UNCHANGED <<pc, inp, jsonpath_cache, parse_calls, thr>>

AppendNext == AppendV2 \/ AppendV5

SpecAppend == AppendInit /\ [][AppendNext]_vars

\* 'id'suffix for each value in order, joined by ',' and nothing else
RECURSIVE WildcardJoin(_, _)
WildcardJoin(ids, suffix) ==
    IF ids = <<>> THEN <<>>
    ELSE <<"'">> \o Head(ids).text \o <<"'">> \o suffix
            \o (IF Len(ids) > 1 THEN <<",">> ELSE <<>>) \o WildcardJoin(Tail(ids), suffix)

\* C11: on records that each have the field, ${append($[*].id, "suffix")} renders to the
\* field values in element order, each in single quotes and followed by the suffix, joined
\* by ',' without spaces.
C11_WildcardJoinThroughAppend ==
    out.op = "render" => (~out.err /\ out.statements = <<WildcardJoin(inp.ids, inp.suffix)>>)

\* what of C11 the code does: replace_placeholders of V2
WildcardJoinThroughAppendV2 ==
    (out.op = "render" /\ out.version = "V2") =>
        (~out.err /\ out.statements = <<WildcardJoin(inp.ids, inp.suffix)>>)

(***************************************************************************)
(* Specification SpecToInt: ${toInt(path)} rendered by V2 and by V5, the   *)
(* path naming the field of one record or, with [*], of every record of a  *)
(* sequence; each value of the field is known to be integer-parseable or   *)
(* not.                                                                    *)
(***************************************************************************)
ToIntValues ==
    { [v |-> PyStr(Chars("42")), parseable |-> TRUE, text |-> Chars("42")],
      [v |-> PyStr(Chars("-3")), parseable |-> TRUE, text |-> Chars("-3")],
      [v |-> PyInt(7), parseable |-> TRUE, text |-> Chars("7")],
      [v |-> PyStr(Chars("x")), parseable |-> FALSE, text |-> <<>>],
      [v |-> PyStr(Chars("4x")), parseable |-> FALSE, text |-> <<>>] }

ToIntInit ==
    /\ pc = "toInt"
    /\ \E values \in SeqsUpTo(ToIntValues, MaxBatch), form \in {"element", "sequence"} :
        /\ values # <<>>
        /\ inp = [values |-> values, form |-> form,
                  records |-> PyList([k \in 1..Len(values) |-> PyObj(F_a :> values[k].v)])]
    /\ out = NoOutput
    /\ jsonpath_cache = EmptyCache
    /\ parse_calls = <<>>
    /\ thr = <<>>

\* V2 resolves the path on the batch
ToIntV2 ==
    /\ pc = "toInt" /\ out = NoOutput
    /\ \E r \in {replace_placeholders(IF inp.form = "element" THEN Chars("${toInt($[0].a)}")
                                      ELSE Chars("${toInt($[*].a)}"),
                                     inp.records)} :
        out' = Rendered("V2", r.err, IF r.err THEN <<>> ELSE <<r.text>>)
    /\ UNCHANGED <<pc, inp, jsonpath_cache, parse_calls, thr>>

\* V5 resolves the path of one record on the record, the [*] path on the sequence
ToIntV5 ==
    /\ pc = "toInt" /\ out = NoOutput
    /\ \E r \in {IF inp.form = "element"
                 THEN render(EmptyCache, Chars("${toInt($.a)}"), inp.records.xs[1])
                 ELSE render(EmptyCache, Chars("${toInt($[*].a)}"), inp.records)} :
        out' = Rendered("V5", r.err, IF r.err THEN <<>> ELSE <<r.text>>)
    /\ UNCHANGED <<pc, inp, jsonpath_cache, parse_calls, thr>>

ToIntNext == ToIntV2 \/ ToIntV5

SpecToInt == ToIntInit /\ [][ToIntNext]_vars

\* the values the argument of toInt resolves to
ToIntArguments == IF inp.form = "element" THEN <<inp.values[1]>> ELSE inp.values

\* the integers in order, separated by ', '
RECURSIVE IntegersText(_)
IntegersText(values) ==
    IF values = <<>> THEN <<>>
    ELSE Head(values).text \o (IF Len(values) > 1 THEN Chars(", ") ELSE <<>>)
            \o IntegersText(Tail(values))

ToIntCastsOrFails ==
    IF \A k \in 1..Len(ToIntArguments) : ToIntArguments[k].parseable
    THEN ~out.err /\ out.statements = <<IntegersText(ToIntArguments)>>
    ELSE out.err

\* C12: toInt casts its argument, or each element of a sequence argument, to an integer;
\* when an element is not integer-parseable the call fails with a conversion error and no
\* value is substituted.
C12_ToIntFailureIsError ==
    out.op = "render" => ToIntCastsOrFails

\* what of C12 the code does: toInt of V2
ToIntFailureIsErrorV2 ==
    (out.op = "render" /\ out.version = "V2") => ToIntCastsOrFails

(***************************************************************************)
(* datetime: strptime, fromisoformat, utcfromtimestamp and strftime, for   *)
(* the directives %Y %m %d %H %M %S (and %f %I %y on output) and formats   *)
(* whose directives are separated by literal characters that are no digits. *)
(***************************************************************************)
DateTime(Y, m, d, H, M, S, f) == [Y |-> Y, m |-> m, d |-> d, H |-> H, M |-> M, S |-> S, f |-> f]
NoDate == [ok |-> FALSE, dt |-> DateTime(0, 0, 0, 0, 0, 0, 0)]
ADate(dt) == [ok |-> TRUE, dt |-> dt]

IsLeap(Y) == (Y % 4 = 0 /\ Y % 100 # 0) \/ Y % 400 = 0
DaysInMonth(Y, m) ==
    IF m = 2 THEN (IF IsLeap(Y) THEN 29 ELSE 28) ELSE IF m \in {4, 6, 9, 11} THEN 30 ELSE 31

\* datetime(Y, m, d, H, M, S) accepts the fields
ValidDate(dt) ==
    /\ dt.Y \in 1..9999 /\ dt.m \in 1..12 /\ dt.d >= 1 /\ dt.d <= DaysInMonth(dt.Y, dt.m)
    /\ dt.H \in 0..23 /\ dt.M \in 0..59 /\ dt.S \in 0..59

\* the value is n digits at i
DigitsAt(s, i, n) == i + n - 1 <= Len(s) /\ \A k \in i..(i + n - 1) : IsDigit(s[k])

\* two-digit and one-digit ranges of the directives of _strptime
DirectiveMax(c) == CASE c = "m" -> 12 [] c = "d" -> 31 [] c = "H" -> 23 [] c = "M" -> 59 [] OTHER -> 61
DirectiveMin(c) == IF c \in {"m", "d"} THEN 1 ELSE 0

\* the number of characters the directive takes at i, 0 when it does not match
DirectiveWidth(c, s, i) ==
    IF c = "Y" THEN (IF DigitsAt(s, i, 4) THEN 4 ELSE 0)
    ELSE IF DigitsAt(s, i, 2) /\ NatVal(SubSeq(s, i, i + 1)) >= DirectiveMin(c)
                              /\ NatVal(SubSeq(s, i, i + 1)) <= DirectiveMax(c) THEN 2
    ELSE IF DigitsAt(s, i, 1) /\ DigitVal(s[i]) >= DirectiveMin(c) THEN 1
    ELSE 0

\* the match of the format from position j on against the value from position i on
RECURSIVE StrptimeFrom(_, _, _, _, _)
StrptimeFrom(s, i, fmt, j, dt) ==
    IF j > Len(fmt) THEN (IF i > Len(s) /\ ValidDate(dt) THEN ADate(dt) ELSE NoDate)
    ELSE IF fmt[j] = "%"
        THEN IF j + 1 > Len(fmt) \/ fmt[j + 1] \notin {"Y", "m", "d", "H", "M", "S"} THEN NoDate
             ELSE The({ IF w = 0 THEN NoDate
                        ELSE StrptimeFrom(s, i + w, fmt, j + 2,
                                          [dt EXCEPT ![fmt[j + 1]] = NatVal(SubSeq(s, i, i + w - 1))])
                        : w \in {DirectiveWidth(fmt[j + 1], s, i)} })
    ELSE IF IsSpace(fmt[j])
        THEN (IF SpaceEnd(s, i) > i THEN StrptimeFrom(s, SpaceEnd(s, i), fmt, SpaceEnd(fmt, j), dt)
              ELSE NoDate)
    ELSE IF PeekIs(s, i, fmt[j]) THEN StrptimeFrom(s, i + 1, fmt, j + 1, dt)
    ELSE NoDate

\* datetime.strptime(value, fmt): [ok, dt], ok false for ValueError
strptime(value, fmt) == StrptimeFrom(value, 1, fmt, 1, DateTime(1900, 1, 1, 0, 0, 0, 0))

\* datetime.fromisoformat(value) for YYYY-MM-DD, YYYY-MM-DD?HH:MM and YYYY-MM-DD?HH:MM:SS
fromisoformat(value) ==
    IF ~(Len(value) \in {10, 16, 19}) THEN NoDate
    ELSE IF ~(DigitsAt(value, 1, 4) /\ value[5] = "-" /\ DigitsAt(value, 6, 2) /\ value[8] = "-"
              /\ DigitsAt(value, 9, 2)) THEN NoDate
    ELSE IF Len(value) >= 16 /\ ~(DigitsAt(value, 12, 2) /\ value[14] = ":" /\ DigitsAt(value, 15, 2))
        THEN NoDate
    ELSE IF Len(value) = 19 /\ ~(value[17] = ":" /\ DigitsAt(value, 18, 2)) THEN NoDate
    ELSE The({ IF ValidDate(dt) THEN ADate(dt) ELSE NoDate
               : dt \in {DateTime(NatVal(SubSeq(value, 1, 4)), NatVal(SubSeq(value, 6, 7)),
                                  NatVal(SubSeq(value, 9, 10)),
                                  IF Len(value) >= 16 THEN NatVal(SubSeq(value, 12, 13)) ELSE 0,
                                  IF Len(value) >= 16 THEN NatVal(SubSeq(value, 15, 16)) ELSE 0,
                                  IF Len(value) = 19 THEN NatVal(SubSeq(value, 18, 19)) ELSE 0,
                                  0)} })

\* the civil date of the day number z - 719468 since 1970-01-01
CivilFromDays(z, H, M, S, f) ==
    The({ The({ The({ The({ The({
        DateTime(yoe + era * 400 + (IF mp < 10 THEN 0 ELSE 1),
                 IF mp < 10 THEN mp + 3 ELSE mp - 9,
                 doy - ((153 * mp + 2) \div 5) + 1, H, M, S, f)
        : mp \in {(5 * doy + 2) \div 153} })
        : doy \in {doe - (365 * yoe + (yoe \div 4) - (yoe \div 100))} })
        : yoe \in {(doe - (doe \div 1460) + (doe \div 36524) - (doe \div 146096)) \div 365} })
        : doe \in {z - era * 146097} })
        : era \in {z \div 146097} })

\* datetime.utcfromtimestamp(seconds + micros / 1e6), seconds not negative
utcfromtimestamp(seconds, micros) ==
    CivilFromDays((seconds \div 86400) + 719468, (seconds % 86400) \div 3600,
                  (seconds % 3600) \div 60, seconds % 60, micros)

\* n in decimal, zero-padded to width
RECURSIVE ZeroPadded(_, _)
ZeroPadded(n, width) ==
    IF width <= 1 THEN NatStr(n)
    ELSE IF Len(NatStr(n)) >= width THEN NatStr(n)
    ELSE <<"0">> \o ZeroPadded(n, width - 1)

\* dt.strftime(fmt)
RECURSIVE strftime(_, _)
strftime(dt, fmt) ==
    IF fmt = <<>> THEN <<>>
    ELSE IF Head(fmt) = "%" /\ Len(fmt) >= 2 /\ fmt[2] \in {"Y", "m", "d", "H", "M", "S", "f", "I", "y"}
        THEN (CASE fmt[2] = "Y" -> ZeroPadded(dt.Y, 4)
                [] fmt[2] = "f" -> ZeroPadded(dt.f, 6)
                [] fmt[2] = "I" -> ZeroPadded(IF dt.H % 12 = 0 THEN 12 ELSE dt.H % 12, 2)
                [] fmt[2] = "y" -> ZeroPadded(dt.Y % 100, 2)
                [] OTHER -> ZeroPadded(dt[fmt[2]], 2))
             \o strftime(dt, SubSeq(fmt, 3, Len(fmt)))
    ELSE <<Head(fmt)>> \o strftime(dt, Tail(fmt))

(***************************************************************************)
(* AddUUIDField 1.0.0 and 1.0.4: convert_date_format, extract_field_name,  *)
(* replace_placeholder and process_record                                  *)
(***************************************************************************)
\* for k, v in mapping.items(): format_str = format_str.replace(k, v)
RECURSIVE ReplaceTokens(_, _, _)
ReplaceTokens(format_str, mapping, k) ==
    IF k > Len(mapping) THEN format_str
    ELSE ReplaceTokens(StrReplace(format_str, mapping[k][1], mapping[k][2]), mapping, k + 1)

convert_date_format(format_str) ==
    ReplaceTokens(format_str,
                  << <<Chars("YYYY"), Chars("%Y")>>, <<Chars("MM"), Chars("%m")>>,
                     <<Chars("DD"), Chars("%d")>>, <<Chars("HH"), Chars("%H")>>,
                     <<Chars("H24"), Chars("%H")>>, <<Chars("h12"), Chars("%I")>>,
                     <<Chars("mm"), Chars("%M")>>, <<Chars("ss"), Chars("%S")>>,
                     <<Chars("SSS"), Chars("%f")>> >>, 1)

extract_field_name(expr) ==
    The({ The({ IF PeekIs(b, 1, ".") THEN Tail(b) ELSE b
                : b \in {IF PeekIs(a, 1, "$") THEN Tail(a) ELSE a} })
          : a \in {Strip(expr)} })

\* what replace_placeholder returns and what it logs
Replaced(text, log) == [text |-> text, log |-> log]

StartsWith(s, prefix) == Len(s) >= Len(prefix) /\ SubSeq(s, 1, Len(prefix)) = prefix

\* rec.get(key, '')
RecGet(rec, key) == IF key \in DOMAIN rec.f THEN rec.f[key] ELSE PyStr(<<>>)

\* the try block of the date branch: the formatted date, or '' and a logged error
date_of_field(version, field_value, props) ==
    The({ IF ~date_obj.ok THEN Replaced(<<>>, "date_error")
          ELSE Replaced(strftime(date_obj.dt, convert_date_format(props.output_date_format)), "none")
          : date_obj \in {
              IF version = "1.0.4" /\ field_value.t = "int"
              THEN (IF field_value.n < 0 THEN NoDate
                    ELSE IF props.timestamp_units = Chars("milliseconds")
                        THEN ADate(utcfromtimestamp(field_value.n \div 1000, (field_value.n % 1000) * 1000))
                    ELSE ADate(utcfromtimestamp(field_value.n, 0)))
              ELSE IF version = "1.0.4" /\ field_value.t = "str" /\ AllDigits(field_value.s)
              THEN (IF props.timestamp_units = Chars("milliseconds")
                    THEN ADate(utcfromtimestamp(NatVal(field_value.s) \div 1000,
                                                (NatVal(field_value.s) % 1000) * 1000))
                    ELSE ADate(utcfromtimestamp(NatVal(field_value.s), 0)))
              ELSE IF field_value.t = "str"
              THEN strptime(field_value.s, convert_date_format(props.input_date_format))
              ELSE NoDate} })

\* replace_placeholder(match, rec), expression being group 1 of the match
replace_placeholder_uuid(version, expression, rec, props) ==
    IF Contains(expression, ":")
    THEN The({ The({
            IF (IF version = "1.0.4" THEN field_value = PyStr(<<>>) ELSE ~Truthy(field_value))
            THEN Replaced(<<>>, "not_found")
            ELSE IF StartsWith(Strip(SubSeq(expression, colon + 1, Len(expression))), Chars("date"))
            THEN date_of_field(version, field_value, props)
            ELSE Replaced(<<>>, "unknown_function")
            : field_value \in {RecGet(rec, extract_field_name(SubSeq(expression, 1, colon - 1)))} })
         : colon \in {IndexFrom(expression, ":", 1)} })
    ELSE The({ Replaced(PyStrOf(field_value),
                        IF (IF version = "1.0.4" THEN field_value = PyStr(<<>>) ELSE ~Truthy(field_value))
                        THEN "not_found" ELSE "none")
               : field_value \in {RecGet(rec, extract_field_name(expression))} })

\* pattern.sub(lambda m: replace_placeholder(m, rec), uuid_template) from position i on:
\* the substituted string and what each placeholder logged
RECURSIVE substitute_uuid(_, _, _, _, _)
substitute_uuid(version, template, rec, props, i) ==
    IF i > Len(template) THEN [text |-> <<>>, log |-> <<>>]
    ELSE The({
        IF close = 0
        THEN The({ [rest EXCEPT !.text = <<template[i]>> \o rest.text]
                   : rest \in {substitute_uuid(version, template, rec, props, i + 1)} })
        ELSE The({ The({ [text |-> one.text \o rest.text, log |-> <<one.log>> \o rest.log]
                         : rest \in {substitute_uuid(version, template, rec, props, close + 1)} })
                   : one \in {replace_placeholder_uuid(version,
                                  Strip(SubSeq(template, i + 2, close - 1)), rec, props)} })
        : close \in {PlaceholderEndV2(template, i)} })

\* str(uuid.UUID(hashlib.md5(text).hexdigest())): the UUID is a function of the text alone
UuidOfMd5(text) == [t |-> "uuid", md5_of |-> text]

\* process_record(rec): the record with the debug field and the UUID field set
process_record(version, rec, props) ==
    The({ PyObj((props.field_name :> UuidOfMd5(sub.text))
                @@ (IF props.debug_field_name = None THEN rec.f
                    ELSE (props.debug_field_name.s :> PyStr(sub.text)) @@ rec.f))
          : sub \in {substitute_uuid(version, props.uuid_template, rec, props, 1)} })

(***************************************************************************)
(* AddFieldFromTemplate 1.0.0: process_template, replacer and transform    *)
(***************************************************************************)
NoMatchAt == [ok |-> FALSE, stop |-> 0, field |-> <<>>, operation |-> None, format_spec |-> None]
MatchAt(stop, field, operation, format_spec) ==
    [ok |-> TRUE, stop |-> stop, field |-> field, operation |-> operation, format_spec |-> format_spec]

\* \s*\} at i: the index of the brace, 0 when it is not there
CloseAt(s, i) == IF PeekIs(s, SpaceEnd(s, i), "}") THEN SpaceEnd(s, i) ELSE 0

\* (?:\("([^"]+)"\))?\s*\} at i: [stop, format_spec], stop 0 when it does not match
FormatSpecAt(s, i) ==
    The({ IF PeekIs(s, i, "(") /\ PeekIs(s, i + 1, "\"") /\ q > i + 2 /\ PeekIs(s, q + 1, ")")
             /\ CloseAt(s, q + 2) > 0
          THEN [stop |-> CloseAt(s, q + 2), format_spec |-> PyStr(SubSeq(s, i + 2, q - 1))]
          ELSE [stop |-> CloseAt(s, i), format_spec |-> None]
          : q \in {IndexFrom(s, "\"", i + 2)} })

\* ([^\(]+?) from n on, its last character at e or later: the shortest operation after
\* which the rest of the pattern matches
RECURSIVE OperationAt(_, _, _, _)
OperationAt(s, n, e, field) ==
    IF e > Len(s) \/ s[e] = "(" THEN NoMatchAt
    ELSE The({ IF rest.stop > 0
               THEN MatchAt(rest.stop, field, PyStr(SubSeq(s, n, e)), rest.format_spec)
               ELSE OperationAt(s, n, e + 1, field)
               : rest \in {FormatSpecAt(s, e + 1)} })

\* the first index from i on of '}' or ':', 0 when there is none
RECURSIVE NameStop(_, _)
NameStop(s, i) ==
    IF i > Len(s) THEN 0 ELSE IF s[i] \in {"}", ":"} THEN i ELSE NameStop(s, i + 1)

\* ([^\}:]+?) starting at q and the rest of the pattern
FieldAt(s, q) ==
    The({ IF n = 0 \/ n = q THEN NoMatchAt
          ELSE IF s[n] = "}" THEN MatchAt(n, Strip(SubSeq(s, q, n - 1)), None, None)
          ELSE OperationAt(s, n + 1, n + 1, Strip(SubSeq(s, q, n - 1)))
          : n \in {NameStop(s, q)} })

\* the pattern \$\{\s*\$?\.?([^\}:]+?)(?::([^\(]+?)(?:\("([^"]+)"\))?)?\s*\} tried at i; the
\* optional $ and . and the spaces are given back when the field would otherwise be empty
PatternAt(s, i) ==
    IF ~(PeekIs(s, i, "$") /\ PeekIs(s, i + 1, "{")) THEN NoMatchAt
    ELSE The({ The({ The({
            IF FieldAt(s, p3).ok THEN FieldAt(s, p3)
            ELSE IF FieldAt(s, p2).ok THEN FieldAt(s, p2)
            ELSE IF FieldAt(s, p1).ok THEN FieldAt(s, p1)
            ELSE FieldAt(s, i + 2)
            : p3 \in {IF PeekIs(s, p2, ".") THEN p2 + 1 ELSE p2} })
            : p2 \in {IF PeekIs(s, p1, "$") THEN p1 + 1 ELSE p1} })
            : p1 \in {SpaceEnd(s, i + 2)} })

\* replacer(match): [raised, text]; self.convert_java_date_format_to_python is looked up on
\* the processor, where no such attribute exists (the function is local to transform)
replacer_add_field(m, record, default_date_format) ==
    The({ IF value = None THEN [raised |-> FALSE, text |-> <<>>]
          ELSE IF m.operation = PyStr(Chars("date"))
          THEN (IF value.t = "str"
                THEN (IF fromisoformat(value.s).ok
                         \/ strptime(value.s, Chars("%Y-%m-%d %H:%M:%S")).ok
                         \/ strptime(value.s, Chars("%Y-%m-%d")).ok
                      THEN [raised |-> TRUE, text |-> <<>>]
                      ELSE [raised |-> FALSE, text |-> value.s])
                ELSE [raised |-> FALSE, text |-> PyStrOf(value)])
          ELSE [raised |-> FALSE, text |-> PyStrOf(value)]
          : value \in {DictGet(record, m.field)} })

\* re.sub(pattern, replacer, template) from position i on
RECURSIVE process_template(_, _, _, _)
process_template(template, record, default_date_format, i) ==
    IF i > Len(template) THEN [raised |-> FALSE, text |-> <<>>]
    ELSE The({
        IF ~m.ok
        THEN The({ [rest EXCEPT !.text = IF rest.raised THEN <<>> ELSE <<template[i]>> \o rest.text]
                   : rest \in {process_template(template, record, default_date_format, i + 1)} })
        ELSE The({
            IF one.raised THEN one
            ELSE The({ [rest EXCEPT !.text = IF rest.raised THEN <<>> ELSE one.text \o rest.text]
                       : rest \in {process_template(template, record, default_date_format, m.stop + 1)} })
            : one \in {replacer_add_field(m, record, default_date_format)} })
        : m \in {PatternAt(template, i)} })

\* transform(context, record, schema, attributemap): [raised, record]
transform_add_field(props, record) ==
    The({ IF new_field_value.raised THEN [raised |-> TRUE, record |-> record]
          ELSE [raised |-> FALSE,
                record |-> PyObj((props.field_name :> PyStr(new_field_value.text)) @@ record.f)]
          : new_field_value \in {process_template(props.template, record,
                                                  props.default_date_format, 1)} })

(***************************************************************************)
(* Specification SpecDate: one record whose field d holds a string, and a  *)
(* template with the placeholder ${d:date} or ${d:date("FMT")}, given to   *)
(* AddFieldFromTemplate and to AddUUIDField 1.0.0 and 1.0.4.               *)
(***************************************************************************)
F_d == Chars("d")
DateParts(Y, m, d, H, M, S) == [Y |-> Chars(Y), m |-> Chars(m), d |-> Chars(d),
                                H |-> Chars(H), M |-> Chars(M), S |-> Chars(S)]
NoParts == DateParts("", "", "", "", "", "")

\* the strings of the field: ISO-8601 and fallback-format dates with their parts, strings
\* that are no date in any format, and a string of digits
DateValues ==
    { [text |-> Chars("2024-01-15"), kind |-> "date", parts |-> DateParts("2024", "01", "15", "00", "00", "00")],
      [text |-> Chars("2024-01-15 10:30:05"), kind |-> "date", parts |-> DateParts("2024", "01", "15", "10", "30", "05")],
      [text |-> Chars("2023-12-31T23:59:00"), kind |-> "date", parts |-> DateParts("2023", "12", "31", "23", "59", "00")],
      [text |-> Chars("tomorrow"), kind |-> "unparseable", parts |-> NoParts],
      [text |-> Chars("15/01/2024"), kind |-> "unparseable", parts |-> NoParts],
      [text |-> Chars("2024-13-45"), kind |-> "unparseable", parts |-> NoParts],
      [text |-> Chars("86400"), kind |-> "digits", parts |-> NoParts] }

\* Java-style formats, each with its layout: the parts and the literals in order
DateFormats ==
    { [text |-> Chars("YYYY-MM-DD"), given |-> FALSE, layout |-> <<"Y", "-", "m", "-", "d">>],
      [text |-> Chars("YYYY/MM/DD"), given |-> TRUE, layout |-> <<"Y", "/", "m", "/", "d">>],
      [text |-> Chars("DD.MM.YYYY HH:mm"), given |-> TRUE,
       layout |-> <<"d", ".", "m", ".", "Y", " ", "H", ":", "M">>] }

DatePrefixes == { <<>>, Chars("id-") }

DateInit ==
    /\ pc = "date"
    /\ \E value \in DateValues, fmt \in DateFormats, prefix \in DatePrefixes :
        inp = [value |-> value, fmt |-> fmt, prefix |-> prefix,
               record |-> PyObj(F_d :> PyStr(value.text))]
    /\ out = NoOutput
    /\ jsonpath_cache = EmptyCache
    /\ parse_calls = <<>>
    /\ thr = <<>>

Dated(processor, raised, text) ==
    [op |-> "date", processor |-> processor, raised |-> raised, text |-> text]

F_new == Chars("new")

\* AddFieldFromTemplate: the format is in the placeholder, or is the Default Date Format
DateAddField ==
    /\ pc = "date" /\ out = NoOutput
    /\ \E r \in {transform_add_field(
                    [field_name |-> F_new,
                     template |-> inp.prefix \o (IF inp.fmt.given
                                                THEN Chars("${d:date(\"") \o inp.fmt.text \o Chars("\")}")
                                                ELSE Chars("${d:date}")),
                     default_date_format |-> IF inp.fmt.given THEN Chars("YYYY") ELSE inp.fmt.text],
                    inp.record)} :
        out' = Dated("AddFieldFromTemplate", r.raised,
                     IF r.raised THEN <<>> ELSE r.record.f[F_new].s)
    /\ UNCHANGED <<pc, inp, jsonpath_cache, parse_calls, thr>>

\* AddUUIDField: the format is the Output Date Format; the substituted string is read from
\* the debug field
DateUuid ==
    /\ pc = "date" /\ out = NoOutput
    /\ \E version \in {"1.0.0", "1.0.4"}, units \in {Chars("seconds"), Chars("milliseconds")} :
       \E r \in {process_record(version, inp.record,
                    [field_name |-> F_new, debug_field_name |-> PyStr(Chars("raw")),
                     uuid_template |-> inp.prefix \o Chars("${d:date}"),
                     input_date_format |-> Chars("YYYY-MM-DD HH:mm:ss"),
                     output_date_format |-> inp.fmt.text, timestamp_units |-> units])} :
        out' = Dated("AddUUIDField " \o version, FALSE, r.f[Chars("raw")].s)
    /\ UNCHANGED <<pc, inp, jsonpath_cache, parse_calls, thr>>

DateNext == DateAddField \/ DateUuid

SpecDate == DateInit /\ [][DateNext]_vars

\* the parts of the date laid out as the format says
RECURSIVE LaidOut(_, _)
LaidOut(parts, layout) ==
    IF layout = <<>> THEN <<>>
    ELSE (IF Head(layout) \in DOMAIN parts THEN parts[Head(layout)] ELSE <<Head(layout)>>)
            \o LaidOut(parts, Tail(layout))

\* C14: date applied to a string that cannot be parsed as a date puts that string,
\* unchanged, in place of the placeholder, and no exception leaves the evaluation
\* (AddFieldFromTemplate, AddUUIDField).
C14_UnparseableDateKeepsString ==
    (out.op = "date" /\ inp.value.kind = "unparseable") =>
        (~out.raised /\ out.text = inp.prefix \o inp.value.text)

\* what of C14 the code does: AddFieldFromTemplate keeps the string, AddUUIDField raises
\* nothing and puts the empty string
UnparseableDateRecovered ==
    (out.op = "date" /\ inp.value.kind = "unparseable") =>
        /\ ~out.raised
        /\ out.text = inp.prefix \o (IF out.processor = "AddFieldFromTemplate"
                                     THEN inp.value.text ELSE <<>>)

\* C15: in AddFieldFromTemplate, ${field:date("FMT")} on an ISO-8601 or fallback-format
\* string completes and sets the new field to the template with the placeholder replaced
\* by the date formatted per FMT, or per the Default Date Format when no FMT is given.
C15_ParseableDateFormatted ==
    (out.op = "date" /\ out.processor = "AddFieldFromTemplate" /\ inp.value.kind = "date") =>
        (~out.raised /\ out.text = inp.prefix \o LaidOut(inp.value.parts, inp.fmt.layout))

\* AddUUIDField does format what its Input Date Format parses, per the Output Date Format
UuidDateFormatted ==
    (out.op = "date" /\ out.processor # "AddFieldFromTemplate"
        /\ inp.value.text = Chars("2024-01-15 10:30:05")) =>
        out.text = inp.prefix \o LaidOut(inp.value.parts, inp.fmt.layout)

(***************************************************************************)
(* Specification SpecUnknown: a placeholder that calls a function outside  *)
(* the registry on the field a of one record, rendered by V2, by V5 and by *)
(* AddUUIDField.                                                           *)
(***************************************************************************)
UnknownNames ==
    { [text |-> Chars("nope"), date_prefixed |-> FALSE],
      [text |-> Chars("upper"), date_prefixed |-> FALSE],
      [text |-> Chars("toFloat"), date_prefixed |-> FALSE],
      [text |-> Chars("datex"), date_prefixed |-> TRUE] }

UnknownValues ==
    { PyInt(1), PyStr(Chars("x")), PyStr(Chars("86400")), PyStr(Chars("2024-01-15 10:30:05")) }

UnknownPrefixes == { <<>>, Chars("k=") }

UnknownInit ==
    /\ pc = "unknown"
    /\ \E name \in UnknownNames, value \in UnknownValues, prefix \in UnknownPrefixes :
        inp = [name |-> name, value |-> value, prefix |-> prefix, record |-> PyObj(F_a :> value)]
    /\ out = NoOutput
    /\ jsonpath_cache = EmptyCache
    /\ parse_calls = <<>>
    /\ thr = <<>>

\* failed: the placeholder was reported as a failure (an exception, or a logged unknown
\* function); text: the text rendered
Called(version, failed, text) ==
    [op |-> "call", version |-> version, failed |-> failed, text |-> text]

UnknownV2 ==
    /\ pc = "unknown" /\ out = NoOutput
    /\ \E r \in {replace_placeholders(inp.prefix \o Chars("${") \o inp.name.text \o Chars("($[0].a)}"),
                                     PyList(<<inp.record>>))} :
        out' = Called("V2", r.err, IF r.err THEN <<>> ELSE r.text)
    /\ UNCHANGED <<pc, inp, jsonpath_cache, parse_calls, thr>>

UnknownV5 ==
    /\ pc = "unknown" /\ out = NoOutput
    /\ \E r \in {render(EmptyCache, inp.prefix \o Chars("${") \o inp.name.text \o Chars("($.a)}"),
                        inp.record)} :
        out' = Called("V5", r.err, IF r.err THEN <<>> ELSE r.text)
    /\ UNCHANGED <<pc, inp, jsonpath_cache, parse_calls, thr>>

UnknownUuid ==
    /\ pc = "unknown" /\ out = NoOutput
    /\ \E version \in {"1.0.0", "1.0.4"} :
       \E r \in {substitute_uuid(version, inp.prefix \o Chars("${a:") \o inp.name.text \o Chars("}"),
                    inp.record,
                    [field_name |-> F_new, debug_field_name |-> None,
                     uuid_template |-> <<>>, input_date_format |-> Chars("YYYY-MM-DD HH:mm:ss"),
                     output_date_format |-> Chars("YYYY-MM-DD"),
                     timestamp_units |-> Chars("seconds")], 1)} :
        out' = Called("AddUUIDField " \o version, r.log = <<"unknown_function">>, r.text)
    /\ UNCHANGED <<pc, inp, jsonpath_cache, parse_calls, thr>>

UnknownNext == UnknownV2 \/ UnknownV5 \/ UnknownUuid

SpecUnknown == UnknownInit /\ [][UnknownNext]_vars

\* the placeholder failed and put no value into the text
FailedWithoutValue == out.failed /\ out.text \in {<<>>, inp.prefix}

\* C13: a placeholder calling a function name outside the registry fails with an
\* unknown-function error, a failure of that placeholder for the caller; it is never
\* evaluated as if the call were absent.
C13_UnknownFunctionFails ==
    out.op = "call" => FailedWithoutValue

\* what of C13 the code does: V2 for every name, AddUUIDField for the names that do not
\* start with 'date'
UnknownFunctionFailsV2Uuid ==
    (out.op = "call" /\ (out.version = "V2" \/ (out.version # "V5" /\ ~inp.name.date_prefixed)))
    => FailedWithoutValue

(***************************************************************************)
(* Specification SpecEquality: the test of a record against the            *)
(* Conditional Value, by the split of V5, V3 and V2 on a batch and by the  *)
(* template choice of 1.0.6 and 1.0.7 on one record; every record has the  *)
(* field status, holding a number or a string.                             *)
(***************************************************************************)
\* the values of the field, each with its text
EqualityValues ==
    { [v |-> PyInt(1), text |-> Chars("1")], [v |-> PyStr(Chars("1")), text |-> Chars("1")],
      [v |-> PyInt(2), text |-> Chars("2")], [v |-> PyStr(Chars("x")), text |-> Chars("x")] }

EqualityTargets == { Chars("1"), Chars("2"), Chars("x") }

EqualityInit ==
    /\ pc = "equality"
    /\ \E values \in SeqsUpTo(EqualityValues, MaxBatch), target \in EqualityTargets :
        /\ values # <<>>
        /\ inp = [values |-> values, target |-> target,
                  records |-> [k \in 1..Len(values) |-> PyObj(F_status :> values[k].v)]]
    /\ out = NoOutput
    /\ jsonpath_cache = EmptyCache
    /\ parse_calls = <<>>
    /\ thr = <<>>

\* tested: how many records of the batch the operation was given
Compared(version, tested, err, matched, unmatched) ==
    [op |-> "equality", version |-> version, tested |-> tested, err |-> err,
     matched |-> matched, unmatched |-> unmatched]

EqualityV5 ==
    /\ pc = "equality" /\ out = NoOutput
    /\ \E r \in {split_data(jsonpath_cache, PyList(inp.records), PyStr(Chars("$.status")),
                            PyStr(inp.target))} :
        /\ out' = Compared("V5", Len(inp.records), r.err, r.matched, r.unmatched)
        /\ jsonpath_cache' = r.cache
    /\ UNCHANGED <<pc, inp, parse_calls, thr>>

EqualityV3 ==
    /\ pc = "equality" /\ out = NoOutput
    /\ \E r \in {split_json_v3(PyList(inp.records), PyStr(Chars("$.status")), PyStr(inp.target))} :
        out' = Compared("V3", Len(inp.records), r.err, r.matched, r.unmatched)
    /\ UNCHANGED <<pc, inp, jsonpath_cache, parse_calls, thr>>

EqualityV2 ==
    /\ pc = "equality" /\ out = NoOutput
    /\ \E r \in {split_json_v2(PyList(inp.records), PyStr(Chars("$.status")), PyStr(inp.target))} :
        out' = Compared("V2", Len(inp.records), r.err, r.matched, r.unmatched)
    /\ UNCHANGED <<pc, inp, jsonpath_cache, parse_calls, thr>>

\* 1.0.6 and 1.0.7 test the one record of the content and render the conditional template
\* ("C") for a match, the main template ("M") otherwise
EqualityConditional ==
    /\ pc = "equality" /\ out = NoOutput
    /\ \E version \in {"1.0.6", "1.0.7"} :
       \E r \in {transform_conditional(version,
                    [template |-> PyStr(Chars("M")), store_in_content |-> PyStr(Chars("true")),
                     attribute_name |-> None, cond_key |-> PyStr(Chars("$.status")),
                     cond_val |-> PyStr(inp.target), cond_template |-> PyStr(Chars("C")),
                     error_handling |-> PyStr(Chars("failure"))],
                    FlowFile(JsonDumps(inp.records[1])))} :
        out' = Compared(version, 1, r.handled,
                        IF r.result.contents = PyStr(Chars("C")) THEN <<inp.records[1]>> ELSE <<>>,
                        PyList(IF r.result.contents = PyStr(Chars("M")) THEN <<inp.records[1]>>
                               ELSE <<>>))
    /\ UNCHANGED <<pc, inp, jsonpath_cache, parse_calls, thr>>

EqualityNext == EqualityV5 \/ EqualityV3 \/ EqualityV2 \/ EqualityConditional

SpecEquality == EqualityInit /\ [][EqualityNext]_vars

\* the tested records whose value, as text, is the target; and the others
TextEqualAt == [i \in 1..out.tested |-> inp.values[i].text = inp.target]
SplitByText ==
    /\ ~out.err
    /\ out.matched = Filter(SubSeq(inp.records, 1, out.tested), TextEqualAt)
    /\ out.unmatched = PyList(Filter(SubSeq(inp.records, 1, out.tested),
                                     [i \in 1..out.tested |-> ~TextEqualAt[i]]))

\* C16: a record matches exactly when the text of the value its Conditional Key resolves to
\* equals the Conditional Value, so the number 1 matches the target "1".
C16_SplitEqualityIsStringEquality ==
    out.op = "equality" => SplitByText

\* what of C16 the code does: 1.0.6 and 1.0.7 compare the text of the value
ConditionalEqualityIsStringEquality ==
    (out.op = "equality" /\ out.version \in {"1.0.6", "1.0.7"}) => SplitByText

\* V5, V3 and V2 compare the value itself with the string: a number never matches
TypedEqualityAt == [i \in 1..out.tested |-> inp.values[i].v = PyStr(inp.target)]
SplitEqualityIsTyped ==
    (out.op = "equality" /\ out.version \in {"V5", "V3", "V2"}) =>
        /\ ~out.err
        /\ out.matched = Filter(inp.records, TypedEqualityAt)
        /\ out.unmatched = PyList(Filter(inp.records, [i \in 1..out.tested |-> ~TypedEqualityAt[i]]))

(***************************************************************************)
(* Specification SpecNoKey: the split, and the whole transform, of V5, V3  *)
(* and V2 when the Conditional Key is unset or empty, whatever the         *)
(* Conditional Value and although a Conditional SQL Template is set.       *)
(***************************************************************************)
NoKeyRecords ==
    { PyObj(F_status :> PyStr(Chars("x"))), PyObj(F_status :> PyStr(Chars("y"))),
      PyObj(F_status :> PyInt(1)) }

\* the input is a list of records, or one record on its own
NoKeyData ==
    {PyList(b) : b \in SeqsUpTo(NoKeyRecords, MaxBatch)} \cup NoKeyRecords

NoKeyInit ==
    /\ pc = "no_key"
    /\ \E data \in NoKeyData, key \in {None, PyStr(<<>>)},
          value \in {None, PyStr(<<>>), PyStr(Chars("x"))} :
        inp = [data |-> data, key |-> key, value |-> value]
    /\ out = NoOutput
    /\ jsonpath_cache = EmptyCache
    /\ parse_calls = <<>>
    /\ thr = <<>>

NoKeySplitV5 ==
    /\ pc = "no_key" /\ out = NoOutput
    /\ \E r \in {split_data(jsonpath_cache, inp.data, inp.key, inp.value)} :
        /\ out' = SplitOutput("V5", r)
        /\ jsonpath_cache' = r.cache
    /\ UNCHANGED <<pc, inp, parse_calls, thr>>

\* Conditional Value of V3 and V2 has the default value '', so it is never None
NoKeySplitV3 ==
    /\ pc = "no_key" /\ out = NoOutput /\ inp.value # None
    /\ out' = SplitOutput("V3", split_json_v3(inp.data, inp.key, inp.value))
    /\ UNCHANGED <<pc, inp, jsonpath_cache, parse_calls, thr>>

NoKeySplitV2 ==
    /\ pc = "no_key" /\ out = NoOutput /\ inp.value # None
    /\ out' = SplitOutput("V2", split_json_v2(inp.data, inp.key, inp.value))
    /\ UNCHANGED <<pc, inp, jsonpath_cache, parse_calls, thr>>

MainTemplate == Chars("M ${$.status}")
ConditionalTemplate == Chars("C ${$.status}")

NoKeyProps ==
    SplitProps(MainTemplate, inp.key, inp.value, PyStr(ConditionalTemplate), Chars("failure"))

NoKeyTransformV5 ==
    /\ pc = "no_key" /\ out = NoOutput
    /\ \E r \in {transform_v5(jsonpath_cache, NoKeyProps, FlowFile(JsonDumps(inp.data)))} :
        /\ out' = Transformed("V5", r.outcome)
        /\ jsonpath_cache' = r.cache
    /\ UNCHANGED <<pc, inp, parse_calls, thr>>

NoKeyTransformV3 ==
    /\ pc = "no_key" /\ out = NoOutput /\ inp.value # None
    /\ out' = Transformed("V3", transform_v3(NoKeyProps, FlowFile(JsonDumps(inp.data))))
    /\ UNCHANGED <<pc, inp, jsonpath_cache, parse_calls, thr>>

NoKeyTransformV2 ==
    /\ pc = "no_key" /\ out = NoOutput /\ inp.value # None
    /\ out' = Transformed("V2", transform_v2(NoKeyProps, FlowFile(JsonDumps(inp.data))))
    /\ UNCHANGED <<pc, inp, jsonpath_cache, parse_calls, thr>>

NoKeyNext ==
    \/ NoKeySplitV5 \/ NoKeySplitV3 \/ NoKeySplitV2
    \/ NoKeyTransformV5 \/ NoKeyTransformV3 \/ NoKeyTransformV2

SpecNoKey == NoKeyInit /\ [][NoKeyNext]_vars

\* the number of records of the input
RecordCount == IF inp.data.t = "list" THEN Len(inp.data.xs) ELSE 1

\* C17: with the Conditional Key empty or absent, the matching bucket is empty and the
\* non-matching bucket is the whole input in its order, so transform renders the main SQL
\* Template only: V5 and V3 once for each record, V2 once for a batch that is not empty.
C17_NoKeyRoutesAllToNonMatching ==
    /\ out.op \in {"V5", "V3", "V2"} =>
          (~out.err /\ out.matched = <<>> /\ out.unmatched = inp.data)
    /\ out.op = "transform" =>
          /\ ~out.outcome.handled
          /\ out.outcome.result.relationship = "success"
          /\ \A k \in 1..Len(out.outcome.log) : Head(out.outcome.log[k]) = "M"
          /\ Len(out.outcome.log) = (IF out.version = "V2" /\ RecordCount > 0 THEN 1
                                     ELSE RecordCount)

\* a batch of three records went whole, in its order, to the non-matching bucket of V5
C17_Witness ==
    /\ out.op = "V5"
    /\ inp.key = PyStr(<<>>) /\ inp.value = PyStr(Chars("x"))
    /\ inp.data = PyList(<<PyObj(F_status :> PyStr(Chars("x"))), PyObj(F_status :> PyInt(1)),
                           PyObj(F_status :> PyStr(Chars("y")))>>)
    /\ out.unmatched = inp.data /\ out.matched = <<>>

(***************************************************************************)
(* Path resolution: a concrete path whose field is missing, and the        *)
(* wildcard projection over records that lack the field                    *)
(***************************************************************************)
ResolveRecords ==
    { PyObj(<<>>), PyObj(F_a :> PyInt(1)), PyObj(F_a :> PyInt(2)), PyObj(F_name :> PyInt(3)),
      PyObj(F_a :> PyInt(4) @@ F_name :> PyInt(5)) }

ResolveFields == {F_a, F_name}

FieldPath(field) == Chars("$.") \o field
IndexPath(index, field) == Chars("$[") \o NatStr(index) \o Chars("].") \o field
WildcardPath(field) == Chars("$[*].") \o field

\* a context with a path into it: $.field into a record, $[index].field and $[*].field
\* into a list of records
ResolveInputs ==
    {[kind |-> "field", context |-> r, index |-> 0, field |-> f, path |-> FieldPath(f)]
        : r \in ResolveRecords, f \in ResolveFields}
    \cup {[kind |-> "index", context |-> PyList(b), index |-> i, field |-> f,
           path |-> IndexPath(i, f)]
        : b \in SeqsUpTo(ResolveRecords, MaxBatch), i \in 0..(MaxBatch - 1), f \in ResolveFields}
    \cup {[kind |-> "wildcard", context |-> PyList(b), index |-> 0, field |-> f,
           path |-> WildcardPath(f)]
        : b \in SeqsUpTo(ResolveRecords, MaxBatch), f \in ResolveFields}

ResolveInit ==
    /\ pc = "resolve"
    /\ inp \in ResolveInputs
    /\ out = NoOutput
    /\ jsonpath_cache = EmptyCache
    /\ parse_calls = <<>>
    /\ thr = <<>>

\* what a resolution left: whether the resolver raised, the matches of find() where the
\* version has them, the value _extract returned, the text evaluate_expression returned and
\* whether the evaluator made the outcome fatal
Resolved(version, raised, vals, value, text, fatal) ==
    [op |-> "resolve", version |-> version, raised |-> raised, vals |-> vals, value |-> value,
     text |-> text, fatal |-> fatal]

\* V5: _extract(context, path, None)
ResolveV5 ==
    /\ pc = "resolve" /\ out = NoOutput
    /\ \E e \in {extract(jsonpath_cache, inp.context, inp.path, None)} :
       \E found \in {JsonPathFind(JsonPathParse(inp.path), inp.context)} :
        /\ out' = Resolved("V5", e.err, IF found.err THEN <<>> ELSE found.vals, e.value, <<>>,
                           e.err)
        /\ jsonpath_cache' = e.cache
    /\ UNCHANGED <<pc, inp, parse_calls, thr>>

\* 1.0.6: evaluate_expression, whose resolver is parse(expression).find(json_data)
ResolveV106 ==
    /\ pc = "resolve" /\ out = NoOutput
    /\ \E jsonpath_expr \in {JsonPathParse(inp.path)} :
       \E found \in {JsonPathFind(jsonpath_expr, inp.context)} :
       \E r \in {evaluate_expression(inp.path, inp.context)} :
        out' = Resolved("1.0.6", ~jsonpath_expr.ok \/ found.err,
                        IF found.err THEN <<>> ELSE found.vals, None, r.text, r.err)
    /\ UNCHANGED <<pc, inp, jsonpath_cache, parse_calls, thr>>

\* 1.0.7: evaluate_expression, which resolves the three patterns itself
ResolveV107 ==
    /\ pc = "resolve" /\ out = NoOutput
    /\ \E r \in {evaluate_expression_v1_0_7(inp.path, inp.context)} :
        out' = Resolved("1.0.7", r.err, <<>>, None, r.text, r.err)
    /\ UNCHANGED <<pc, inp, jsonpath_cache, parse_calls, thr>>

ResolveNext == ResolveV5 \/ ResolveV106 \/ ResolveV107

SpecResolve == ResolveInit /\ [][ResolveNext]_vars

\* the context lacks the key of a concrete path, or the index is out of range
MissingAtPath ==
    \/ inp.kind = "field" /\ inp.field \notin DOMAIN inp.context.f
    \/ /\ inp.kind = "index"
       /\ \/ inp.index >= Len(inp.context.xs)
          \/ inp.field \notin DOMAIN inp.context.xs[inp.index + 1].f

\* C18: resolving $.name or $[i].name against a context that lacks the key, or whose index
\* is out of range, yields an empty result and the resolver raises nothing.
C18_MissingFieldIsNotAResolverError ==
    (out.op = "resolve" /\ MissingAtPath) =>
        (~out.raised /\ out.vals = <<>> /\ out.text = <<>>)

\* what the code does: the resolvers built on jsonpath find() give no match and raise
\* nothing (_extract returning its default), and evaluate_expression of 1.0.7 raises
MissingFieldByVersion ==
    (out.op = "resolve" /\ MissingAtPath) =>
        /\ out.version \in {"V5", "1.0.6"} => (~out.raised /\ out.vals = <<>>)
        /\ out.version = "V5" => out.value = None
        /\ out.version = "1.0.6" => out.fatal
        /\ out.version = "1.0.7" => out.raised

\* the positions of the elements of the list that have the field
Having == {i \in 1..Len(inp.context.xs) : inp.field \in DOMAIN inp.context.xs[i].f}

\* vals holds the field of each element that has it, in the order of the list
IsProjection(vals) ==
    /\ Len(vals) = Cardinality(Having)
    /\ \A i \in Having :
          vals[Cardinality({j \in Having : j <= i})] = inp.context.xs[i].f[inp.field]

\* C19: $[*].field over a list returns one value for each element that has the field, in
\* the order of the list, skipping the elements that lack it; an element without the field
\* does not make the projection fail.
C19_WildcardProjectionSkipsMissing ==
    (out.op = "resolve" /\ inp.kind = "wildcard") =>
        /\ ~out.raised
        /\ out.version \in {"V5", "1.0.6"} => IsProjection(out.vals)
        /\ out.version = "1.0.7" =>
              \E vals \in {v \in SeqsUpTo({PyInt(n) : n \in 1..5}, MaxBatch) : IsProjection(v)} :
                  out.text = Join(<<",">>, [k \in 1..Len(vals) |-> IntStr(vals[k].n)])

\* what the code does: find() skips the elements that lack the field, and
\* evaluate_expression of 1.0.7 raises as soon as one element lacks it
WildcardProjectionByVersion ==
    (out.op = "resolve" /\ inp.kind = "wildcard") =>
        /\ out.version \in {"V5", "1.0.6"} => (~out.raised /\ IsProjection(out.vals))
        /\ out.version = "1.0.7" =>
              (out.raised <=> Cardinality(Having) < Len(inp.context.xs))

(***************************************************************************)
(* A path with several matches formatted into a template                   *)
(***************************************************************************)
\* a value with the text str() gives it and the text it has once a string is quoted
JoinValues ==
    { [v |-> PyInt(1), plain |-> Chars("1"), quoted |-> Chars("1")],
      [v |-> PyInt(2), plain |-> Chars("2"), quoted |-> Chars("2")],
      [v |-> PyStr(Chars("x")), plain |-> Chars("x"), quoted |-> Chars("'x'")],
      [v |-> PyStr(Chars("y")), plain |-> Chars("y"), quoted |-> Chars("'y'")] }

JoinInit ==
    /\ pc = "join"
    /\ inp \in {[items |-> b] : b \in SeqsUpTo(JoinValues, MaxBatch)}
    /\ out = NoOutput
    /\ jsonpath_cache = EmptyCache
    /\ parse_calls = <<>>
    /\ thr = <<>>

\* the list of records {"a": value}, one for each item
JoinData == PyList([i \in 1..Len(inp.items) |-> PyObj(F_a :> inp.items[i].v)])

Joined(version, err, text) == [op |-> "join", version |-> version, err |-> err, text |-> text]

\* 1.0.6: evaluate_expression('$[*].a', json_data)
JoinV106 ==
    /\ pc = "join" /\ out = NoOutput
    /\ \E r \in {evaluate_expression(WildcardPath(F_a), JoinData)} :
        out' = Joined("1.0.6", r.err, r.text)
    /\ UNCHANGED <<pc, inp, jsonpath_cache, parse_calls, thr>>

\* 1.0.7: evaluate_expression('$[*].a', json_data)
JoinV107 ==
    /\ pc = "join" /\ out = NoOutput
    /\ \E r \in {evaluate_expression_v1_0_7(WildcardPath(F_a), JoinData)} :
        out' = Joined("1.0.7", r.err, r.text)
    /\ UNCHANGED <<pc, inp, jsonpath_cache, parse_calls, thr>>

\* V2: the replacer of replace_placeholders on ${$[*].a}
JoinV2 ==
    /\ pc = "join" /\ out = NoOutput
    /\ \E r \in {replacer(WildcardPath(F_a), JoinData)} :
        out' = Joined("V2", r.err, r.text)
    /\ UNCHANGED <<pc, inp, jsonpath_cache, parse_calls, thr>>

\* V3: generate_sql(data, '${$[*].a}'), one aggregated statement
JoinV3 ==
    /\ pc = "join" /\ out = NoOutput
    /\ \E sqls \in {generate_sql(JoinData.xs, Chars("${") \o WildcardPath(F_a) \o Chars("}"))} :
        out' = Joined("V3", Len(sqls) # 1, IF Len(sqls) = 1 THEN sqls[1] ELSE <<>>)
    /\ UNCHANGED <<pc, inp, jsonpath_cache, parse_calls, thr>>

JoinNext == JoinV106 \/ JoinV107 \/ JoinV2 \/ JoinV3

SpecJoin == JoinInit /\ [][JoinNext]_vars

\* the items as the version writes each of them: 1.0.x with str(), V2 and V3 quoting strings
ItemTexts(version) ==
    [i \in 1..Len(inp.items) |->
        IF version \in {"1.0.6", "1.0.7"} THEN inp.items[i].plain ELSE inp.items[i].quoted]

\* what follows the substituted text: generate_sql ends its statement with ';'
Terminator(version) == IF version = "V3" THEN <<";">> ELSE <<>>

\* C20: when the path of a placeholder resolves to several values, they are substituted in
\* context order joined with ',' and no other separator, in evaluate_expression of 1.0.x,
\* replace_placeholders of V2 and generate_sql of V3.
C20_MultiMatchJoinedWithComma ==
    (out.op = "join" /\ Len(inp.items) >= 2) =>
        /\ ~out.err
        /\ out.text = Join(<<",">>, ItemTexts(out.version)) \o Terminator(out.version)

\* what the code does: 1.0.x and V3 join with ',' and V2 joins with ', '
MultiMatchSeparatorByVersion ==
    (out.op = "join" /\ Len(inp.items) >= 2) =>
        /\ ~out.err
        /\ out.text = Join(IF out.version = "V2" THEN <<",", " ">> ELSE <<",">>,
                           ItemTexts(out.version)) \o Terminator(out.version)

(***************************************************************************)
(* ExpressionParser of V2 step by step: pc is the method the parser is in, *)
(* out its index, the calls of parse_function_call in progress and the     *)
(* value or error it ended with                                            *)
(***************************************************************************)
MaxExprLen == 4

ExprChars == {"f", "$", "'", "(", ")", ",", " ", "1"}

ExprTexts == SeqsUpTo(ExprChars, MaxExprLen)

\* peek(): the character at the index (counted from 0), '' at the end of the text
Peek(s, index) == IF index < Len(s) THEN s[index + 1] ELSE ""

\* skip_whitespace(): the index afterwards
skip_whitespace(s, index) == SpaceEnd(s, index + 1) - 1

\* s[start:index]
Slice(s, start, index) == SubSeq(s, start + 1, index)

\* the parser: index, the frames of parse_function_call (name, args, and top, the index at
\* the top of the iteration of `while True` in progress), the locals start and quote of the
\* method in progress, the value returned last, the error raised
ParserState(index, stack, start, quote, ast, error) ==
    [op |-> "parser", index |-> index, stack |-> stack, start |-> start, quote |-> quote,
     ast |-> ast, error |-> error]

NoAst == Variable(<<>>)

ParserInit ==
    /\ pc = "parse_expression"
    /\ inp \in {[s |-> text] : text \in ExprTexts}
    /\ out = ParserState(0, <<>>, 0, "", NoAst, "")
    /\ jsonpath_cache = EmptyCache
    /\ parse_calls = <<>>
    /\ thr = <<>>

\* raise ValueError(...)
ParserRaise(st, index, error) == [pc |-> "error", st |-> [st EXCEPT !.index = index, !.error = error]]

\* return ast: to the caller's caller at the outermost level, else into parse_function_call
\* after `arg = self.parse_expression()`
ParserReturn(st, index, ast) ==
    [pc |-> IF st.stack = <<>> THEN "done" ELSE "after_arg",
     st |-> [st EXCEPT !.index = index, !.ast = ast]]

ParserGoto(to, st) == [pc |-> to, st |-> st]

\* parse_expression: skip_whitespace, peek, and the first step of the method chosen
parse_expression_step(s, st) ==
    The({ The({
        IF IsAlpha(ch) THEN ParserGoto("name", [st EXCEPT !.index = i, !.start = i])
        ELSE IF ch = "$" THEN ParserGoto("variable", [st EXCEPT !.index = i + 1, !.start = i])
        ELSE IF ch = "'" \/ ch = DQ
            THEN ParserGoto("string", [st EXCEPT !.index = i + 1, !.start = i + 1, !.quote = ch])
        ELSE IF IsDigit(ch) THEN ParserGoto("number", [st EXCEPT !.index = i, !.start = i])
        ELSE ParserRaise(st, i, "Unexpected character")
        : ch \in {Peek(s, i)} })
        : i \in {skip_whitespace(s, st.index)} })

\* parse_function_call_or_variable: one test of its while loop, and what follows the loop;
\* parse_function_call begins with the '(' consumed
parse_function_call_or_variable_step(s, st) ==
    IF IsWord(Peek(s, st.index)) THEN ParserGoto("name", [st EXCEPT !.index = st.index + 1])
    ELSE The({
        IF Peek(s, i) = "("
        THEN ParserGoto("args",
                [st EXCEPT !.index = i + 1,
                           !.stack = Append(st.stack, [name |-> Slice(s, st.start, st.index),
                                                       args |-> <<>>, top |-> i + 1])])
        ELSE ParserReturn(st, i, Variable(Slice(s, st.start, st.index)))
        : i \in {skip_whitespace(s, st.index)} })

Top(st) == st.stack[Len(st.stack)]
Pop(st) == SubSeq(st.stack, 1, Len(st.stack) - 1)

\* parse_function_call: the top of one iteration of `while True`
parse_function_call_step(s, st) ==
    The({
        IF Peek(s, i) = ")"
        THEN ParserReturn([st EXCEPT !.stack = Pop(st)], i + 1,
                          FunctionCall(Top(st).name, Top(st).args))
        ELSE ParserGoto("parse_expression",
                [st EXCEPT !.index = i, !.stack[Len(st.stack)].top = st.index])
        : i \in {skip_whitespace(s, st.index)} })

\* parse_function_call taking whatever follows an argument as the start of the next one
after_arg_step_without_check(s, st) ==
    The({
        IF Peek(s, i) = ","
        THEN ParserGoto("args", [st EXCEPT !.index = i + 1,
                                           !.stack[Len(st.stack)].args = Append(@, st.ast)])
        ELSE ParserGoto("args", [st EXCEPT !.index = i,
                                           !.stack[Len(st.stack)].args = Append(@, st.ast)])
        : i \in {skip_whitespace(s, st.index)} })

\* parse_function_call after arg = self.parse_expression(): args.append(arg),
\* skip_whitespace, then ',' or ')' or the ValueError
after_arg_step(s, st) ==
    The({
        IF Peek(s, i) = ","
        THEN ParserGoto("args", [st EXCEPT !.index = i + 1,
                                           !.stack[Len(st.stack)].args = Append(@, st.ast)])
        ELSE IF Peek(s, i) = ")"
        THEN ParserGoto("args", [st EXCEPT !.index = i,
                                           !.stack[Len(st.stack)].args = Append(@, st.ast)])
        ELSE ParserRaise(st, i, "Expected ',' or ')'")
        : i \in {skip_whitespace(s, st.index)} })

\* parse_variable: one test of its while loop
parse_variable_step(s, st) ==
    IF Peek(s, st.index) # "" /\ Peek(s, st.index) \notin {" ", ",", ")", "(", "'"}
    THEN ParserGoto("variable", [st EXCEPT !.index = st.index + 1])
    ELSE ParserReturn(st, st.index, Variable(Slice(s, st.start, st.index)))

\* parse_string whose loop forgets to consume
parse_string_step_without_consume(s, st) ==
    IF Peek(s, st.index) # st.quote
    THEN IF Peek(s, st.index) = "" THEN ParserRaise(st, st.index, "Unterminated string")
         ELSE ParserGoto("string", st)
    ELSE ParserReturn(st, st.index + 1, StringLit(Slice(s, st.start, st.index)))

\* parse_string: one test of its while loop
parse_string_step(s, st) ==
    IF Peek(s, st.index) # st.quote
    THEN IF Peek(s, st.index) = "" THEN ParserRaise(st, st.index, "Unterminated string")
         ELSE ParserGoto("string", [st EXCEPT !.index = st.index + 1])
    ELSE ParserReturn(st, st.index + 1, StringLit(Slice(s, st.start, st.index)))

\* parse_number: one test of its while loop
parse_number_step(s, st) ==
    IF IsDigit(Peek(s, st.index)) THEN ParserGoto("number", [st EXCEPT !.index = st.index + 1])
    ELSE ParserReturn(st, st.index, NumberLit(NatVal(Slice(s, st.start, st.index))))

ParserStep(at, r) ==
    /\ pc = at
    /\ pc' = r.pc
    /\ out' = r.st
    /\ UNCHANGED <<inp, jsonpath_cache, parse_calls, thr>>

ParseExpression == ParserStep("parse_expression", parse_expression_step(inp.s, out))
ParseName == ParserStep("name", parse_function_call_or_variable_step(inp.s, out))
ParseArgs == ParserStep("args", parse_function_call_step(inp.s, out))
ParseAfterArg == ParserStep("after_arg", after_arg_step(inp.s, out))
ParseVariable == ParserStep("variable", parse_variable_step(inp.s, out))
ParseString == ParserStep("string", parse_string_step(inp.s, out))
ParseNumber == ParserStep("number", parse_number_step(inp.s, out))

ParserNext ==
    \/ ParseExpression \/ ParseName \/ ParseArgs \/ ParseAfterArg
    \/ ParseVariable \/ ParseString \/ ParseNumber

SpecParser == ParserInit /\ [][ParserNext]_vars

\* the steps give what parse_expression as a whole gives: the same tuple and index, or
\* an error where it has one
StepsAgreeWithParseExpression ==
    /\ pc = "done" => \E r \in {parse_expression(inp.s, 1)} :
                         ~r.err /\ r.ast = out.ast /\ r.i = out.index + 1
    /\ pc = "error" => parse_expression(inp.s, 1).err

\* the parser is in a string literal whose closing quote is nowhere ahead
Unterminated ==
    pc = "string" /\ \A j \in (out.index + 1)..Len(inp.s) : inp.s[j] # out.quote

\* the character parse_expression finds after the white space starts no expression
CannotStart ==
    /\ pc = "parse_expression"
    /\ Peek(inp.s, skip_whitespace(inp.s, out.index)) \notin (Letters \cup Digits \cup {"$", "'", DQ})

\* an argument has been read and what follows it is neither ',' nor ')'
ArgumentNotFollowed ==
    /\ pc = "after_arg"
    /\ Peek(inp.s, skip_whitespace(inp.s, out.index)) \notin {",", ")"}

\* C21: parse_expression fails with a parse error when a string literal is not terminated,
\* when the character at the scan position cannot start an expression, and when an
\* argument of a function call is followed by something other than ',' or ')', the end of
\* the text included; nothing in the parser catches the error.
C21_ParserErrorCases ==
    [][ /\ Unterminated =>
              \/ pc' = "string" /\ Unterminated'
              \/ pc' = "error" /\ out.index = Len(inp.s) /\ out'.error = "Unterminated string"
        /\ CannotStart => (pc' = "error" /\ out'.error = "Unexpected character")
        /\ ArgumentNotFollowed => (pc' = "error" /\ out'.error = "Expected ',' or ')'")
        /\ pc # "error" ]_vars

\* f(1 ends while an argument list is open: the ValueError for the missing ',' or ')'
C21_Witness ==
    /\ pc = "error" /\ inp.s = Chars("f(1")
    /\ out.error = "Expected ',' or ')'" /\ out.index = Len(inp.s) /\ Len(out.stack) = 1

\* C27: whenever parse_expression returns a tuple, the index is at the end of the text, white
\* space apart; text left over after a complete expression is a parse error.
C27_ParserConsumesWholeInput ==
    pc = "done" => skip_whitespace(inp.s, out.index) = Len(inp.s)

\* what the code does: parse_expression returns the tuple of the part of the text it has
\* read, whatever follows it
ParserReadsAPrefix ==
    pc = "done" =>
        /\ out.index <= Len(inp.s)
        /\ \E r \in {parse_expression(SubSeq(inp.s, 1, out.index), 1)} :
              ~r.err /\ r.ast = out.ast /\ r.i = out.index + 1

SpecParserLive == SpecParser /\ WF_vars(ParserNext)

\* C28: on every text parse_expression returns a tuple or raises after finitely many steps;
\* the index never decreases and never exceeds the length of the text, and every iteration
\* of the loop over the arguments and of the loop of the string literal advances the index
\* or ends the parse.
C28_ParserTerminates ==
    /\ <>(pc \in {"done", "error"})
    /\ [](out.index >= 0 /\ out.index <= Len(inp.s))
    /\ [][ /\ out'.index >= out.index
           /\ (pc = "string" /\ pc' = "string") => out'.index > out.index
           /\ (pc = "after_arg" /\ pc' = "args") => out'.index > Top(out).top ]_vars

\* f(1) has been parsed in two iterations of the loop over the arguments, the first reading
\* the argument and the second the ')'
C28_Witness ==
    /\ pc = "done" /\ inp.s = Chars("f(1)")
    /\ out.ast = FunctionCall(Chars("f"), <<NumberLit(1)>>)
    /\ out.index = Len(inp.s) /\ out.stack = <<>>

(***************************************************************************)
(* The spellings of a path: $.a.b, a.b and a bare field name               *)
(***************************************************************************)
MaxDepth == 2

AliasLeaves == {PyInt(1), PyStr(Chars("x"))}

\* the objects over the fields a and b whose values are taken from values
ObjectsOver(values) ==
    UNION {{PyObj(f) : f \in [d -> values]} : d \in SUBSET {F_a, F_b}}

AliasContexts == ObjectsOver(AliasLeaves \cup ObjectsOver(AliasLeaves))

\* a.b for the segments a, b
Dotted(segments) == Join(<<".">>, segments)

AliasInit ==
    /\ pc = "alias"
    /\ inp \in {[context |-> c, segments |-> p]
                  : c \in AliasContexts, p \in SeqsUpTo({F_a, F_b}, MaxDepth) \ {<<>>}}
    /\ out = NoOutput
    /\ jsonpath_cache = EmptyCache
    /\ parse_calls = <<>>
    /\ thr = <<>>

\* what the two spellings gave: with '$.' in front, and bare
Aliased(version, dollar, bare, first) ==
    [op |-> "alias", version |-> version, dollar |-> dollar, bare |-> bare, first |-> first]

\* the value of a placeholder text in V2: evaluate(ExpressionParser(text).parse_expression(), data)
ValueV2(text, data) ==
    The({ IF parsed.err THEN EvalError ELSE evaluate(parsed.ast, data)
          : parsed \in {parse_expression(text, 1)} })

\* V2: the values of the placeholder texts $.a.b and a.b
AliasValueV2 ==
    /\ pc = "alias" /\ out = NoOutput
    /\ out' = Aliased("V2 value",
                      ValueV2(Chars("$.") \o Dotted(inp.segments), inp.context),
                      ValueV2(Dotted(inp.segments), inp.context),
                      ValueV2(Chars("$.") \o inp.segments[1], inp.context))
    /\ UNCHANGED <<pc, inp, jsonpath_cache, parse_calls, thr>>

Placeholder(text) == Chars("${") \o text \o Chars("}")

\* V2: replace_placeholders on ${$.a.b} and on ${a.b}
AliasTextV2 ==
    /\ pc = "alias" /\ out = NoOutput
    /\ out' = Aliased("V2 text",
                      replace_placeholders(Placeholder(Chars("$.") \o Dotted(inp.segments)),
                                           inp.context),
                      replace_placeholders(Placeholder(Dotted(inp.segments)), inp.context),
                      replace_placeholders(Placeholder(Chars("$.") \o inp.segments[1]),
                                           inp.context))
    /\ UNCHANGED <<pc, inp, jsonpath_cache, parse_calls, thr>>

\* what a render of V5 gave, the cache left aside
RenderedText(r) == [err |-> r.err, text |-> r.text]

\* V5: _render on ${$.a.b} and on ${a.b}
AliasTextV5 ==
    /\ pc = "alias" /\ out = NoOutput
    /\ \E d \in {render(jsonpath_cache, Placeholder(Chars("$.") \o Dotted(inp.segments)),
                        inp.context)} :
       \E b \in {render(d.cache, Placeholder(Dotted(inp.segments)), inp.context)} :
        /\ out' = Aliased("V5 text", RenderedText(d), RenderedText(b), RenderedText(d))
        /\ jsonpath_cache' = b.cache
    /\ UNCHANGED <<pc, inp, parse_calls, thr>>

AliasNext == AliasValueV2 \/ AliasTextV2 \/ AliasTextV5

SpecAlias == AliasInit /\ [][AliasNext]_vars

\* C22: the placeholder texts $.a.b and a.b resolve to the same value, and a bare field
\* name resolves to the same value as $.fieldname, at any nesting depth.
C22_PathSpellingsAreAliases ==
    out.op = "alias" => out.bare = out.dollar

\* what the code does: a bare field name is an alias of $.fieldname; in V2 a bare dotted
\* path gives the value of its first segment, the rest of the text unread; in V5 the two
\* spellings agree at every depth
PathSpellingsByVersion ==
    out.op = "alias" =>
        /\ Len(inp.segments) = 1 => out.bare = out.dollar
        /\ out.version \in {"V2 value", "V2 text"} => out.bare = out.first
        /\ out.version = "V5 text" => out.bare = out.dollar

(***************************************************************************)
(* One SQLGeneratorProcessorV5 instance serving transforms one after the   *)
(* other, on records whose values look like path texts                     *)
(***************************************************************************)
\* a template with the path texts of its placeholders
InstanceTemplates ==
    { [text |-> Chars("${$.a}"), paths |-> {Chars("$.a")}],
      [text |-> Chars("${toString($.b)}"), paths |-> {Chars("$.b")}],
      [text |-> Chars("${$.a, '$.c'}"), paths |-> {Chars("$.a")}],
      [text |-> Chars("${$.}${$.b}"), paths |-> {Chars("$."), Chars("$.b")}],
      [text |-> Chars("${$.b}${$.}"), paths |-> {Chars("$."), Chars("$.b")}] }

InstanceConditionalTemplate == [text |-> Chars("C ${$.status}"), paths |-> {Chars("$.status")}]

\* the Conditional Key unset, or a path text
InstanceKeys == { [key |-> None, paths |-> {}], [key |-> PyStr(Chars("$.a")), paths |-> {Chars("$.a")}] }

InstanceValue == PyStr(Chars("$.c"))

\* the strings the records hold
DataTexts == {Chars("$.c"), Chars("$.d")}

InstanceData ==
    { PyObj(F_a :> PyStr(Chars("$.c"))),
      PyObj(F_a :> PyStr(Chars("$.c")) @@ F_b :> PyStr(Chars("$.d"))),
      PyObj(F_b :> PyStr(Chars("$.d")) @@ F_status :> PyStr(Chars("$.c"))),
      PyList(<<PyObj(F_a :> PyStr(Chars("$.c")) @@ F_status :> PyStr(Chars("$.d"))),
               PyObj(F_a :> PyStr(Chars("$.d")) @@ F_b :> PyInt(1))>>) }

Served(seen) == [op |-> "served", seen |-> seen]

InstanceInit ==
    /\ pc = "instance"
    /\ inp = [template |-> <<>>, key |-> None, data |-> None]
    /\ out = Served({})
    /\ jsonpath_cache = EmptyCache
    /\ parse_calls = <<>>
    /\ thr = <<>>

\* one transform on the instance; seen collects the path texts of the placeholders and of
\* the Conditional Key of the configurations so far
InstanceTransform(template, key, data) ==
    /\ pc = "instance"
    /\ \E r \in {transform_v5(jsonpath_cache,
                              SplitProps(template.text, key.key, InstanceValue,
                                         PyStr(InstanceConditionalTemplate.text), Chars("failure")),
                              FlowFile(JsonDumps(data)))} :
        jsonpath_cache' = r.cache
    /\ inp' = [template |-> template.text, key |-> key.key, data |-> data]
    /\ out' = Served(out.seen \cup template.paths \cup key.paths
                        \cup InstanceConditionalTemplate.paths)
    /\ UNCHANGED <<pc, parse_calls, thr>>

InstanceNext ==
    \E template \in InstanceTemplates, key \in InstanceKeys, data \in InstanceData :
        InstanceTransform(template, key, data)

SpecInstance == InstanceInit /\ [][InstanceNext]_vars

\* C23: after any sequence of transforms on one V5 instance every cache key is a path text
\* taken from a template placeholder or from the Conditional Key, and no key or cached value
\* is derived from the content of a processed record: the value is what the key text alone
\* compiles to, and no string of a record is a key.
C23_CacheHoldsNoDataDependentState ==
    /\ DOMAIN jsonpath_cache \subseteq out.seen
    /\ DOMAIN jsonpath_cache \cap DataTexts = {}
    /\ \A q \in DOMAIN jsonpath_cache :
          \E compiled \in {JsonPathParse(q)} : compiled.ok /\ jsonpath_cache[q] = compiled

\* three path texts are cached after records holding the strings $.c and $.d were served,
\* the last of them a batch
C23_Witness ==
    /\ DOMAIN jsonpath_cache = {Chars("$.a"), Chars("$.b"), Chars("$.status")}
    /\ inp.data \in InstanceData /\ inp.data.t = "list"

(***************************************************************************)
(* The same instance with direct calls of _get_expr between the transforms *)
(***************************************************************************)
\* a path text, and whether jsonpath parse() accepts it
EvictPaths ==
    { [text |-> Chars("$.a"), compiles |-> TRUE], [text |-> Chars("$.b"), compiles |-> TRUE],
      [text |-> Chars("$[*].a"), compiles |-> TRUE], [text |-> Chars("$."), compiles |-> FALSE],
      [text |-> Chars("$["), compiles |-> FALSE] }

\* one call _get_expr(path) on the instance
InstanceGetExpr(path) ==
    /\ pc = "instance"
    /\ \E got \in {get_expr(jsonpath_cache, path.text)} :
        /\ jsonpath_cache' = got.cache
        /\ out' = [op |-> "get_expr", seen |-> out.seen \cup {path.text}, err |-> got.err,
                   expr |-> got.expr]
    /\ inp' = [template |-> path.text, key |-> None, data |-> None, compiles |-> path.compiles]
    /\ UNCHANGED <<pc, parse_calls, thr>>

EvictNext ==
    \/ InstanceNext
    \/ \E path \in EvictPaths : InstanceGetExpr(path)

SpecEvict == InstanceInit /\ [][EvictNext]_vars

\* C24: in single-threaded use an entry of the cache stays present and bound to the same
\* compiled expression after every later operation, and a _get_expr call whose compilation
\* fails raises and leaves the cache exactly as it was.
C24_CacheNeverEvicts ==
    [][ /\ \A q \in DOMAIN jsonpath_cache :
              q \in DOMAIN jsonpath_cache' /\ jsonpath_cache'[q] = jsonpath_cache[q]
        /\ (out'.op = "get_expr" /\ ~inp'.compiles) =>
              (out'.err /\ jsonpath_cache' = jsonpath_cache) ]_vars

\* _get_expr has just failed on '$[' with three entries in the cache
C24_Witness ==
    /\ out.op = "get_expr" /\ out.err /\ inp.template = Chars("$[")
    /\ DOMAIN jsonpath_cache = {Chars("$.a"), Chars("$.b"), Chars("$.status")}

(***************************************************************************)
(* One statement for each record of a batch                                *)
(***************************************************************************)
OnceRecords ==
    { PyObj(F_status :> PyStr(st) @@ F_id :> PyInt(n)) : st \in {Chars("x"), Chars("y")}, n \in {1, 2} }

\* a batch of records, or one record on its own
OnceData == {PyList(b) : b \in SeqsUpTo(OnceRecords, MaxBatch)} \cup OnceRecords

OnceMain == Chars("M ${$.id}")
OnceConditional == Chars("C ${$.id}")

OnceInit ==
    /\ pc = "once"
    /\ inp \in {[data |-> d, key |-> k, value |-> PyStr(Chars("x")), cond_template |-> t]
                  : d \in OnceData, k \in {None, PyStr(Chars("$.status"))},
                    t \in {None, PyStr(OnceConditional)}}
    /\ out = NoOutput
    /\ jsonpath_cache = EmptyCache
    /\ parse_calls = <<>>
    /\ thr = <<>>

OnceProps == SplitProps(OnceMain, inp.key, inp.value, inp.cond_template, Chars("failure"))

OnceV5 ==
    /\ pc = "once" /\ out = NoOutput
    /\ \E r \in {transform_v5(jsonpath_cache, OnceProps, FlowFile(JsonDumps(inp.data)))} :
        /\ out' = Transformed("V5", r.outcome)
        /\ jsonpath_cache' = r.cache
    /\ UNCHANGED <<pc, inp, parse_calls, thr>>

OnceV3 ==
    /\ pc = "once" /\ out = NoOutput
    /\ out' = Transformed("V3", transform_v3(OnceProps, FlowFile(JsonDumps(inp.data))))
    /\ UNCHANGED <<pc, inp, jsonpath_cache, parse_calls, thr>>

OnceNext == OnceV5 \/ OnceV3

SpecOnce == OnceInit /\ [][OnceNext]_vars

\* the records of the input in their order
OnceInput == IF inp.data.t = "list" THEN inp.data.xs ELSE <<inp.data>>

\* the record is in the matching bucket: a Conditional Key is set and the record's status
\* is the Conditional Value
InMatchingBucket(rec) == inp.key # None /\ rec.f[F_status] = inp.value
InOtherBucket(rec) == ~InMatchingBucket(rec)

\* the statement of a record under a template 'M ${$.id}' or 'C ${$.id}', as the version
\* ends it
StatementOf(version, letter, rec) ==
    <<letter, " ">> \o IntStr(rec.f[F_id].n) \o (IF version = "V3" THEN <<";">> ELSE <<>>)

\* one statement for each record: the non-matching ones under the SQL Template first, then
\* the matching ones under the Conditional SQL Template, each group in input order
OneStatementPerRecord(version) ==
    The({ [k \in 1..Len(others) |-> StatementOf(version, "M", others[k])]
          \o [k \in 1..Len(matching) |-> StatementOf(version, "C", matching[k])]
          : others \in {SelectSeq(OnceInput, InOtherBucket)},
            matching \in {SelectSeq(OnceInput, InMatchingBucket)} })

\* C25: a successful V5 transform emits exactly one statement for each input record,
\* rendered with the Conditional SQL Template if and only if the record is in the matching
\* bucket and with the SQL Template otherwise, the non-matching statements first, input
\* order kept inside each group; no record is silently dropped.
C25_EveryRecordRenderedOnce ==
    (out.op = "transform" /\ out.version = "V5" /\ out.outcome.result.relationship = "success") =>
        out.outcome.log = OneStatementPerRecord("V5")

\* what the code does: the transform succeeds on every such input, and the statements are
\* those of C25 unless records match and no Conditional SQL Template is set; then the
\* matching records have no statement at all
RecordsRenderedUnlessTemplateUnset ==
    out.op = "transform" =>
        /\ out.outcome.result.relationship = "success"
        /\ (inp.cond_template # None \/ SelectSeq(OnceInput, InMatchingBucket) = <<>>) =>
              out.outcome.log = OneStatementPerRecord(out.version)
        /\ inp.cond_template = None =>
              \E others \in {SelectSeq(OnceInput, InOtherBucket)} :
                  out.outcome.log = [k \in 1..Len(others) |->
                                        StatementOf(out.version, "M", others[k])]

(***************************************************************************)
(* Values of the record that hold the text of a placeholder                *)
(***************************************************************************)
\* a value with the text str() gives it and the text it has once a string is quoted
RescanValues ==
    { [v |-> PyStr(Chars("X")), plain |-> Chars("X"), quoted |-> Chars("'X'")],
      [v |-> PyInt(1), plain |-> Chars("1"), quoted |-> Chars("1")],
      [v |-> PyStr(Chars("${$.b}")), plain |-> Chars("${$.b}"), quoted |-> Chars("'${$.b}'")],
      [v |-> PyStr(Chars("${$.a}")), plain |-> Chars("${$.a}"), quoted |-> Chars("'${$.a}'")] }

\* a template as its parts: a field stands for the placeholder ${$.field}, a text for itself
RescanTemplates ==
    { <<[field |-> F_a]>>, <<[field |-> F_a], [text |-> Chars(" ")], [field |-> F_b]>>,
      <<[field |-> F_b], [text |-> Chars(" ")], [field |-> F_a]>>,
      <<[field |-> F_a], [field |-> F_a]>>, <<[text |-> Chars("t")]>> }

IsField(part) == "field" \in DOMAIN part

TemplateText(parts) ==
    Flatten([k \in 1..Len(parts) |->
                IF IsField(parts[k]) THEN Placeholder(Chars("$.") \o parts[k].field)
                ELSE parts[k].text])

RescanInit ==
    /\ pc = "rescan"
    /\ inp \in {[a |-> va, b |-> vb, parts |-> parts]
                  : va \in RescanValues, vb \in RescanValues, parts \in RescanTemplates}
    /\ out = NoOutput
    /\ jsonpath_cache = EmptyCache
    /\ parse_calls = <<>>
    /\ thr = <<>>

RescanRecord == PyObj(F_a :> inp.a.v @@ F_b :> inp.b.v)

\* V5: _render(template, record)
RescanV5 ==
    /\ pc = "rescan" /\ out = NoOutput
    /\ \E r \in {render(jsonpath_cache, TemplateText(inp.parts), RescanRecord)} :
        /\ out' = Rendered("V5", r.err, <<r.text>>)
        /\ jsonpath_cache' = r.cache
    /\ UNCHANGED <<pc, inp, parse_calls, thr>>

\* V2: replace_placeholders(template, record)
RescanV2 ==
    /\ pc = "rescan" /\ out = NoOutput
    /\ \E r \in {replace_placeholders(TemplateText(inp.parts), RescanRecord)} :
        out' = Rendered("V2", r.err, <<r.text>>)
    /\ UNCHANGED <<pc, inp, jsonpath_cache, parse_calls, thr>>

\* V3: generate_sql([record], template)
RescanV3 ==
    /\ pc = "rescan" /\ out = NoOutput
    /\ out' = Rendered("V3", FALSE, generate_sql(<<RescanRecord>>, TemplateText(inp.parts)))
    /\ UNCHANGED <<pc, inp, jsonpath_cache, parse_calls, thr>>

RescanNext == RescanV5 \/ RescanV2 \/ RescanV3

SpecRescan == RescanInit /\ [][RescanNext]_vars

\* the text a part stands for in the output: a text for itself, a field for its value as the
\* version writes it (V5 and V2 quote a string, V3 writes str(value))
PartText(version, part) ==
    IF ~IsField(part) THEN part.text
    ELSE The({ IF version = "V3" THEN value.plain ELSE value.quoted
               : value \in {IF part.field = F_a THEN inp.a ELSE inp.b} })

\* every placeholder replaced by its own value, taken verbatim
SubstitutedOnce(version) ==
    Flatten([k \in 1..Len(inp.parts) |-> PartText(version, inp.parts[k])])
    \o (IF version = "V3" THEN <<";">> ELSE <<>>)

\* C26: in every renderer a value of the record that holds the text of a placeholder
\* appears verbatim in the output and is not expanded again, so what one placeholder
\* renders to does not depend on the values substituted for the others.
C26_SubstitutedDataNotRescanned ==
    out.op = "render" => (~out.err /\ out.statements = <<SubstitutedOnce(out.version)>>)

\* what the code does: re.sub in V5 and V2 substitutes in one pass over the template; the
\* str.replace calls of V3 run one after the other on the text already substituted
SubstitutedInOnePassV5V2 ==
    (out.op = "render" /\ out.version \in {"V5", "V2"}) =>
        (~out.err /\ out.statements = <<SubstitutedOnce(out.version)>>)

(***************************************************************************)
(* RemoveDuplicatesByKey                                                   *)
(***************************************************************************)
\* s.split(',')
RECURSIVE SplitAll(_)
SplitAll(s) ==
    The({ IF c = 0 THEN <<s>> ELSE <<SubSeq(s, 1, c - 1)>> \o SplitAll(SubSeq(s, c + 1, Len(s)))
          : c \in {IndexFrom(s, ",", 1)} })

\* [key.strip() for key in keys_str.split(',') if key.strip()]
KeysOf(keys_str) ==
    The({ Filter([i \in 1..Len(parts) |-> Strip(parts[i])],
                 [i \in 1..Len(parts) |-> Strip(parts[i]) # <<>>])
          : parts \in {SplitAll(keys_str)} })

\* tuple(str(item.get(k, None)) for k in keys)
key_values(item, keys) == [k \in 1..Len(keys) |-> PyStrOf(DictGet(item, keys[k]))]

\* the loop over reversed(data) from the i-th item down: result_list with the items whose
\* key_values are not in seen_keys inserted at the front
RECURSIVE dedup_from(_, _, _, _, _)
dedup_from(data, keys, i, seen_keys, result_list) ==
    IF i = 0 THEN result_list
    ELSE The({ IF key \notin seen_keys
               THEN dedup_from(data, keys, i - 1, seen_keys \cup {key}, <<data[i]>> \o result_list)
               ELSE dedup_from(data, keys, i - 1, seen_keys, result_list)
               : key \in {key_values(data[i], keys)} })

\* RemoveDuplicatesByKey.transform: item.get, called once for each key, raises
\* AttributeError on an item that is no dict, and only json.JSONDecodeError is caught
transform_remove_duplicates(keys_str, content_str) ==
    The({
        IF ~data.ok THEN FlowFileTransformResult("failure", None, None)
        ELSE IF data.v.t = "list"
        THEN (IF KeysOf(keys_str) # <<>> /\ \E i \in 1..Len(data.v.xs) : data.v.xs[i].t # "obj"
              THEN Raised
              ELSE FlowFileTransformResult("success", None,
                       PyStr(JsonDumps(PyList(dedup_from(data.v.xs, KeysOf(keys_str),
                                                         Len(data.v.xs), {}, <<>>))))))
        ELSE FlowFileTransformResult("success", None, PyStr(content_str))
        : data \in {json_loads(content_str)} })

DedupItems ==
    { PyObj(F_a :> PyInt(1)), PyObj(F_a :> PyStr(Chars("1"))), PyObj(F_a :> PyInt(2)),
      PyObj(F_a :> PyInt(1) @@ F_b :> PyInt(1)), PyObj(F_b :> PyInt(2)), PyInt(5) }

\* the content: the dump of an array, of a value that is no array, or text that is no JSON
DedupContents ==
    {[text |-> JsonDumps(PyList(b)), data |-> PyList(b)] : b \in SeqsUpTo(DedupItems, MaxBatch)}
    \cup {[text |-> JsonDumps(v), data |-> v] : v \in {PyObj(F_a :> PyInt(1)), PyInt(5)}}
    \cup {[text |-> Chars("[1"), data |-> None]}

\* the Keys property with the keys it lists
DedupKeys ==
    { [text |-> Chars("a"), keys |-> <<F_a>>], [text |-> Chars(" a , b,"), keys |-> <<F_a, F_b>>],
      [text |-> Chars("b,a"), keys |-> <<F_b, F_a>>], [text |-> Chars(" , "), keys |-> <<>>] }

DedupInit ==
    /\ pc = "dedup"
    /\ inp \in {[content |-> c, keys |-> k] : c \in DedupContents, k \in DedupKeys}
    /\ out = NoOutput
    /\ jsonpath_cache = EmptyCache
    /\ parse_calls = <<>>
    /\ thr = <<>>

DedupTransform ==
    /\ pc = "dedup" /\ out = NoOutput
    /\ out' = [op |-> "dedup", result |-> transform_remove_duplicates(inp.keys.text, inp.content.text)]
    /\ UNCHANGED <<pc, inp, jsonpath_cache, parse_calls, thr>>

DedupNext == DedupTransform

SpecDedup == DedupInit /\ [][DedupNext]_vars

\* the value an item has for a key: the field, null for a field that is absent and for an
\* item that has no fields
KeyValue(item, key) == IF item.t = "obj" /\ key \in DOMAIN item.f THEN item.f[key] ELSE None

\* the items at i and j have the same tuple of key values
SameTuple(xs, i, j) ==
    \A k \in 1..Len(inp.keys.keys) :
        KeyValue(xs[i], inp.keys.keys[k]) = KeyValue(xs[j], inp.keys.keys[k])

\* the same, the values compared by their str()
SameTupleAsText(xs, i, j) ==
    \A k \in 1..Len(inp.keys.keys) :
        PyStrOf(KeyValue(xs[i], inp.keys.keys[k])) = PyStrOf(KeyValue(xs[j], inp.keys.keys[k]))

\* ys holds the items of xs at the positions of kept, in their order
IsSelection(ys, xs, kept) ==
    /\ Len(ys) = Cardinality(kept)
    /\ \A i \in kept : ys[Cardinality({j \in kept : j <= i})] = xs[i]

\* the output array of a transform that returned 'success'
DedupOutput == json_loads(out.result.contents.s)

\* C29: for every JSON array and key list the output array holds, for each distinct tuple
\* of key values of the input, exactly one item, the last input item with that tuple, the
\* kept items in their original relative order; an input that is no array is output
\* unchanged.
C29_KeepsLastOccurrence ==
    (out.op = "dedup" /\ inp.content.data # None) =>
        /\ ~out.result.raised /\ out.result.relationship = "success"
        /\ inp.content.data.t # "list" => out.result.contents = PyStr(inp.content.text)
        /\ inp.content.data.t = "list" =>
              \E xs \in {inp.content.data.xs} :
                  /\ DedupOutput.ok /\ DedupOutput.v.t = "list"
                  /\ IsSelection(DedupOutput.v.xs, xs,
                                 {i \in 1..Len(xs) : \A j \in (i + 1)..Len(xs) : ~SameTuple(xs, i, j)})

\* what the code does: an array with an item that is no object makes transform raise; in an
\* array of objects the last item of each tuple of key values is kept, two values being the
\* same when their str() is; anything that is no array comes out unchanged
KeepsLastOccurrenceByText ==
    (out.op = "dedup" /\ inp.content.data # None) =>
        /\ inp.content.data.t # "list" =>
              (~out.result.raised /\ out.result.contents = PyStr(inp.content.text))
        /\ inp.content.data.t = "list" =>
              \E xs \in {inp.content.data.xs} :
                  /\ out.result.raised <=>
                        (inp.keys.keys # <<>> /\ \E i \in 1..Len(xs) : xs[i].t # "obj")
                  /\ ~out.result.raised =>
                        /\ DedupOutput.ok /\ DedupOutput.v.t = "list"
                        /\ IsSelection(DedupOutput.v.xs, xs,
                               {i \in 1..Len(xs) :
                                   \A j \in (i + 1)..Len(xs) : ~SameTupleAsText(xs, i, j)})

(***************************************************************************)
(* RabbitMQConsumer.transform step by step: every call on pika either      *)
(* returns or raises; inp holds the two queues, out the connection, the    *)
(* channel, the calls made so far and what was returned                    *)
(***************************************************************************)
MaxQueue == 2

Messages == {"m1", "m2"}

NoMessage == "none"

Consumer(calls, connection, channel, body, acked, failed, relationship, contents) ==
    [op |-> "consume", calls |-> calls, connection |-> connection, channel |-> channel,
     body |-> body, acked |-> acked, failed |-> failed, relationship |-> relationship,
     contents |-> contents]

ConsumerInit ==
    /\ pc = "connect"
    /\ inp \in {[priority_queue |-> p, normal_queue |-> n, priority_at_start |-> p,
                 normal_at_start |-> n]
                  : p \in SeqsUpTo(Messages, MaxQueue), n \in SeqsUpTo(Messages, MaxQueue)}
    /\ out = Consumer(<<>>, "none", "none", NoMessage, 0, FALSE, "", NoMessage)
    /\ jsonpath_cache = EmptyCache
    /\ parse_calls = <<>>
    /\ thr = <<>>

\* a call on pika that raised: control goes to `except Exception`
Failing(call) ==
    /\ pc' = "except"
    /\ out' = [out EXCEPT !.calls = Append(@, call), !.failed = TRUE]
    /\ UNCHANGED <<inp, jsonpath_cache, parse_calls, thr>>

\* connection = pika.BlockingConnection(parameters)
Connect ==
    /\ pc = "connect"
    /\ \/ /\ pc' = "channel"
          /\ out' = [out EXCEPT !.calls = Append(@, "connect"), !.connection = "open"]
          /\ UNCHANGED <<inp, jsonpath_cache, parse_calls, thr>>
       \/ Failing("connect")

\* channel = connection.channel()
OpenChannel ==
    /\ pc = "channel"
    /\ \/ /\ pc' = "get_priority"
          /\ out' = [out EXCEPT !.calls = Append(@, "channel"), !.channel = "open"]
          /\ UNCHANGED <<inp, jsonpath_cache, parse_calls, thr>>
       \/ Failing("channel")

\* channel.basic_get(queue=priority_queue, auto_ack=False) and the test of method_frame
GetPriority ==
    /\ pc = "get_priority"
    /\ \/ /\ inp.priority_queue # <<>>
          /\ pc' = "ack"
          /\ out' = [out EXCEPT !.calls = Append(@, "get priority"),
                                !.body = Head(inp.priority_queue)]
          /\ inp' = [inp EXCEPT !.priority_queue = Tail(@)]
          /\ UNCHANGED <<jsonpath_cache, parse_calls, thr>>
       \/ /\ inp.priority_queue = <<>>
          /\ pc' = "get_normal"
          /\ out' = [out EXCEPT !.calls = Append(@, "get priority")]
          /\ UNCHANGED <<inp, jsonpath_cache, parse_calls, thr>>
       \/ Failing("get priority")

\* channel.basic_get(queue=normal_queue, auto_ack=False) and the test of method_frame
GetNormal ==
    /\ pc = "get_normal"
    /\ \/ /\ inp.normal_queue # <<>>
          /\ pc' = "ack"
          /\ out' = [out EXCEPT !.calls = Append(@, "get normal"),
                                !.body = Head(inp.normal_queue)]
          /\ inp' = [inp EXCEPT !.normal_queue = Tail(@)]
          /\ UNCHANGED <<jsonpath_cache, parse_calls, thr>>
       \/ /\ inp.normal_queue = <<>>
          /\ pc' = "close_channel"
          /\ out' = [out EXCEPT !.calls = Append(@, "get normal")]
          /\ UNCHANGED <<inp, jsonpath_cache, parse_calls, thr>>
       \/ Failing("get normal")

\* channel.basic_ack(delivery_tag=method_frame.delivery_tag)
Ack ==
    /\ pc = "ack"
    /\ \/ /\ pc' = "close_channel"
          /\ out' = [out EXCEPT !.calls = Append(@, "ack"), !.acked = @ + 1]
          /\ UNCHANGED <<inp, jsonpath_cache, parse_calls, thr>>
       \/ Failing("ack")

\* channel.close()
CloseChannel ==
    /\ pc = "close_channel"
    /\ \/ /\ pc' = "close_connection"
          /\ out' = [out EXCEPT !.calls = Append(@, "close channel"), !.channel = "closed"]
          /\ UNCHANGED <<inp, jsonpath_cache, parse_calls, thr>>
       \/ Failing("close channel")

\* connection.close()
CloseConnection ==
    /\ pc = "close_connection"
    /\ \/ /\ pc' = "return"
          /\ out' = [out EXCEPT !.calls = Append(@, "close connection"),
                                !.connection = "closed"]
          /\ UNCHANGED <<inp, jsonpath_cache, parse_calls, thr>>
       \/ Failing("close connection")

\* return FlowFileTransformResult(relationship='no_message') with no message fetched,
\* FlowFileTransformResult(relationship='success', contents=body) with one
ReturnResult ==
    /\ pc = "return"
    /\ pc' = "done"
    /\ out' = IF out.body = NoMessage THEN [out EXCEPT !.relationship = "no_message"]
              ELSE [out EXCEPT !.relationship = "success", !.contents = out.body]
    /\ UNCHANGED <<inp, jsonpath_cache, parse_calls, thr>>

\* except Exception: the error is logged and 'no_message' returned
Except ==
    /\ pc = "except"
    /\ pc' = "done"
    /\ out' = [out EXCEPT !.relationship = "no_message"]
    /\ UNCHANGED <<inp, jsonpath_cache, parse_calls, thr>>

ConsumerNext ==
    \/ Connect \/ OpenChannel \/ GetPriority \/ GetNormal \/ Ack
    \/ CloseChannel \/ CloseConnection \/ ReturnResult \/ Except

SpecConsumer == ConsumerInit /\ [][ConsumerNext]_vars

\* the position of a call among the calls made, 0 when it was not made
CallAt(call) ==
    IF \E k \in 1..Len(out.calls) : out.calls[k] = call
    THEN CHOOSE k \in 1..Len(out.calls) : out.calls[k] = call
    ELSE 0

TimesCalled(call) == Cardinality({k \in 1..Len(out.calls) : out.calls[k] = call})

\* at most one message is fetched and emitted, the normal queue is polled only after the
\* priority queue returned no message, and a message returned with 'success' was
\* acknowledged exactly once before
PollingOrder ==
    /\ Len(inp.priority_queue) + Len(inp.normal_queue) + 1
          >= Len(inp.priority_at_start) + Len(inp.normal_at_start)
    /\ TimesCalled("get priority") <= 1 /\ TimesCalled("get normal") <= 1
    /\ CallAt("get normal") > 0 =>
          /\ inp.priority_at_start = <<>>
          /\ CallAt("get priority") > 0 /\ CallAt("get priority") < CallAt("get normal")
    /\ out.acked <= 1
    /\ pc = "done" /\ out.relationship = "success" =>
          /\ out.acked = 1 /\ TimesCalled("ack") = 1
          /\ out.contents = out.body
          /\ out.body = (IF inp.priority_at_start # <<>> THEN Head(inp.priority_at_start)
                         ELSE Head(inp.normal_at_start))

\* 'no_message' is returned when both queues are empty or a step fails, 'success' otherwise
RelationshipReturned ==
    pc = "done" =>
        out.relationship = (IF out.failed \/ (inp.priority_at_start = <<>> /\ inp.normal_at_start = <<>>)
                            THEN "no_message" ELSE "success")

\* C30: in every invocation at most one message is fetched and emitted; the normal queue is
\* polled only after the priority queue returned no message; a fetched message is
\* acknowledged exactly once, before 'success' is returned with its body; 'no_message' is
\* returned when both queues are empty or any step fails; and the channel and the
\* connection are closed on every path that opened them.
C30_PollingProtocol ==
    /\ PollingOrder
    /\ RelationshipReturned
    /\ pc = "done" => (out.connection # "open" /\ out.channel # "open")

\* what the code does: the order of the calls and the relationship are those of C30, and
\* the channel and the connection are closed when no call raised; a call that raises after
\* the connection was opened leaves it open
PollingProtocolWithoutFailure ==
    /\ PollingOrder
    /\ RelationshipReturned
    /\ (pc = "done" /\ ~out.failed) => (out.connection = "closed" /\ out.channel = "closed")
    /\ (pc = "done" /\ out.failed /\ Len(out.calls) > 1) => out.connection = "open"

=============================================================================
